---- MODULE Spec2Model ----
(***************************************************************************)
(* MagGeo: annotation of a GPS trajectory with Swarm residuals.            *)
(*                                                                         *)
(* Floating point values are modelled as exact rationals extended with     *)
(* the IEEE values NaN and +Inf (no negative infinity is ever produced:    *)
(* the only division by zero is 1 / Dj**2).  DataFrames are sequences of   *)
(* records; a frame that has no columns at all (pd.DataFrame()) is told    *)
(* apart from an empty frame that kept its columns.                        *)
(* Positions lie on one meridian (all longitudes equal), where the         *)
(* haversine distance is R * |dlat| * pi / 180.  The float64 rounding of   *)
(* distance_to_GPS's degree conversions is modelled apart (SpecDistance).  *)
(***************************************************************************)
EXTENDS Integers, Sequences, FiniteSets, TLC

VARIABLES gps_df, swarm_a, swarm_b, swarm_c, params,
          seq_pc, results, seq_out,
          par_pc, gps_chunks, chunk_state, chunk_out, finish_order, imap_results,
          final_df, par_out, idw, dates_pc, dates_df, unique_dates_df, fn_call

vars == <<gps_df, swarm_a, swarm_b, swarm_c, params,
          seq_pc, results, seq_out,
          par_pc, gps_chunks, chunk_state, chunk_out, finish_order, imap_results,
          final_df, par_out, idw, dates_pc, dates_df, unique_dates_df, fn_call>>

----------------------------------------------------------------------------
(* Bounds *)

MaxRecs == 2
MaxPts == 2
MaxChunk == 2
MaxCores == 2
MaxDatePts == 2

----------------------------------------------------------------------------
(* Floating point layer *)

Abs(x) == IF x < 0 THEN -x ELSE x

RECURSIVE GCD(_, _)
GCD(a, b) == IF b = 0 THEN a ELSE GCD(b, a % b)

Num(n, d) ==
    LET g == GCD(Abs(n), Abs(d))
        s == IF d < 0 THEN -1 ELSE 1
    IN  [k |-> "num", n |-> s * (n \div g), d |-> s * (d \div g)]

NaN == [k |-> "nan", n |-> 0, d |-> 1]
Inf == [k |-> "inf", n |-> 1, d |-> 0]
Flt(i) == [k |-> "num", n |-> i, d |-> 1]

isnan(x) == x.k = "nan"
isfinite(x) == x.k = "num"

fadd(x, y) ==
    IF isnan(x) \/ isnan(y) THEN NaN
    ELSE IF x.k = "inf" \/ y.k = "inf" THEN Inf
    ELSE Num(x.n * y.d + y.n * x.d, x.d * y.d)

fmul(x, y) ==
    IF isnan(x) \/ isnan(y) THEN NaN
    ELSE IF x.k = "inf" THEN (IF y.k = "num" /\ y.n = 0 THEN NaN ELSE Inf)
    ELSE IF y.k = "inf" THEN (IF x.n = 0 THEN NaN ELSE Inf)
    ELSE Num(x.n * y.n, x.d * y.d)

fdiv(x, y) ==
    IF isnan(x) \/ isnan(y) THEN NaN
    ELSE IF x.k = "inf" THEN (IF y.k = "inf" THEN NaN ELSE Inf)
    ELSE IF y.k = "inf" THEN Flt(0)
    ELSE IF y.n = 0 THEN (IF x.n = 0 THEN NaN ELSE Inf)
    ELSE Num(x.n * y.d, x.d * y.n)

fle(x, y) == x.n * y.d <= y.n * x.d

(* pandas Series.sum(): NaN entries are skipped, the empty sum is 0.0 *)
RECURSIVE Series_sum(_)
Series_sum(s) ==
    IF s = <<>> THEN Flt(0)
    ELSE IF isnan(s[1]) THEN Series_sum(Tail(s))
    ELSE fadd(s[1], Series_sum(Tail(s)))

(* pandas Series.mean(): NaN when nothing is left to average *)
Series_mean(s) ==
    LET valid == SelectSeq(s, LAMBDA x : ~isnan(x))
    IN  IF valid = <<>> THEN NaN ELSE fdiv(Series_sum(valid), Flt(Len(valid)))

(* pandas Series.min(): NaN on an empty series *)
Series_min(s) ==
    IF s = <<>> THEN NaN
    ELSE CHOOSE m \in {s[j] : j \in DOMAIN s} :
             \A j \in DOMAIN s : fle(m, s[j])

----------------------------------------------------------------------------
(* auxiliaryfunctions.py *)

KmPerDegree == 111          \* R * pi / 180 with R = 6373.0 km, in whole km
Meridian == 68              \* the one longitude every position of the model has

(* Haversine distance for two points of the same meridian (e_lng = s_lng), *)
(* where d = sin((e_lat - s_lat)/2)**2 and 2*R*arcsin(sqrt(d)) is          *)
(* R * |e_lat - s_lat| in radians.                                         *)
distance_to_GPS(s_lat, s_lng, e_lat, e_lng) == KmPerDegree * Abs(e_lat - s_lat)

Kradius_north_formula_in_south(lat) ==
    IF -90 < lat /\ lat < 90 THEN [raised |-> FALSE, nlat |-> (-10 * lat) + 1800]
    ELSE [raised |-> TRUE, nlat |-> 0]

Kradius_closed_at_pole(lat) ==
    IF 0 <= lat /\ lat <= 90 THEN [raised |-> FALSE, nlat |-> (-10 * lat) + 1800]
    ELSE IF -90 < lat /\ lat < 0 THEN [raised |-> FALSE, nlat |-> (10 * lat) + 1800]
    ELSE [raised |-> TRUE, nlat |-> 0]

(* Kradius either returns nlat or raises ValueError *)
Kradius(lat) ==
    IF 0 <= lat /\ lat < 90 THEN [raised |-> FALSE, nlat |-> (-10 * lat) + 1800]
    ELSE IF -90 < lat /\ lat < 0 THEN [raised |-> FALSE, nlat |-> (10 * lat) + 1800]
    ELSE [raised |-> TRUE, nlat |-> 0]

(* DistJ returns sqrt(x) with x = ((ds/r)**2 + (dt/DT)**2)/2; its only use *)
(* is Dj ** 2, so the value is represented by its square x.                *)
fsquare(x) == fmul(x, x)
DistJ_not_halved(ds, r, dt, DT) ==
    fadd(fsquare(fdiv(Flt(ds), Flt(r))), fsquare(fdiv(Flt(dt), Flt(DT))))

DistJ(ds, r, dt, DT) ==
    fdiv(fadd(fsquare(fdiv(Flt(ds), Flt(r))), fsquare(fdiv(Flt(dt), Flt(DT)))), Flt(2))

(* A frame: has_columns is FALSE only for pd.DataFrame() *)
Frame(rows) == [has_columns |-> TRUE, rows |-> rows]
EmptyDataFrame == [has_columns |-> FALSE, rows |-> <<>>]

(* SwarmData.loc[lo:hi] on a monotonic index: label slicing by searchsorted,
   left for the start label and right for the stop label, both inclusive *)
loc_slice_open_stop(SwarmData, lo, hi) ==
    LET start == Cardinality({j \in DOMAIN SwarmData : SwarmData[j].epoch < lo})
        stop  == Cardinality({j \in DOMAIN SwarmData : SwarmData[j].epoch < hi})
    IN  SubSeq(SwarmData, start + 1, stop)

loc_slice(SwarmData, lo, hi) ==
    LET start == Cardinality({j \in DOMAIN SwarmData : SwarmData[j].epoch < lo})
        stop  == Cardinality({j \in DOMAIN SwarmData : SwarmData[j].epoch <= hi})
    IN  SubSeq(SwarmData, start + 1, stop)

DfTime_func(SwarmData, GPSTime, DT) ==
    IF \E j \in DOMAIN SwarmData : SwarmData[j].epoch = GPSTime
    THEN Frame(loc_slice(SwarmData, GPSTime - DT, GPSTime + DT))
    ELSE EmptyDataFrame

----------------------------------------------------------------------------
(* interpolation.py *)

DEFAULT_DT_SECONDS == 14400
F_RES_MIN == -2000
F_RES_MAX == 2000
FLAG_MIN == 0
FLAG_MAX == 1

between(x, lo, hi) == lo <= x /\ x <= hi

filter_flags_no_Flags_B(df) ==
    LET df1 == SelectSeq(df,  LAMBDA row : between(row.F_res, F_RES_MIN, F_RES_MAX))
        df2 == SelectSeq(df1, LAMBDA row : between(row.Flags_F, FLAG_MIN, FLAG_MAX))
    IN  df2

filter_flags(df) ==
    LET df1 == SelectSeq(df,  LAMBDA row : between(row.F_res, F_RES_MIN, F_RES_MAX))
        df2 == SelectSeq(df1, LAMBDA row : between(row.Flags_F, FLAG_MIN, FLAG_MAX))
        df3 == SelectSeq(df2, LAMBDA row : between(row.Flags_B, FLAG_MIN, FLAG_MAX))
    IN  df3

(* The rows of a frame or the values of a column, one per index 1..n: the
   sequence with the elements of f *)
Rows(f) == f \o <<>>

(* df[c]: one column of a frame, in row order *)
Column(df, c) == Rows([j \in 1..Len(df) |-> df[j][c]])

(* df[c] of an integer-valued column, as float64 *)
FltColumn(df, c) == Rows([j \in 1..Len(df) |-> Flt(df[j][c])])

(* lines 198-200: swarm_filtered['Wj'] * swarm_filtered[c] *)
weighted(df, c) == Rows([j \in 1..Len(df) |-> fmul(df[j].Wj, Flt(df[j][c]))])

(* lines 61-106: the per-point copy with dT, distance and r *)
with_dT_distance_r(tk, gps_lat, gps_long, gps_epoch, r) ==
    Rows([j \in 1..Len(tk) |-> tk[j] @@
        [dT |-> gps_epoch - tk[j].epoch,
         distance |-> distance_to_GPS(gps_lat, gps_long, tk[j].Latitude, tk[j].Longitude),
         r |-> r]])

space_filter_strict(tk) == SelectSeq(tk, LAMBDA row : row.distance < row.r)

(* lines 115-117 *)
space_filter(tk) == SelectSeq(tk, LAMBDA row : row.distance <= row.r)

(* line 155: pd.concat([k_a, k_b, k_c], keys=['A', 'B', 'C']) *)
with_key(k, key) == Rows([j \in 1..Len(k) |-> k[j] @@ [key |-> key]])
concat_keys(k_a, k_b, k_c) ==
    with_key(k_a, "A") \o with_key(k_b, "B") \o with_key(k_c, "C")

NoLocals == [tk_a |-> EmptyDataFrame, tk_b |-> EmptyDataFrame, tk_c |-> EmptyDataFrame,
             swarm_filtered |-> <<>>, sum_w |-> NaN]

Interpolation_record(lat, long, alt, datetime, n, e, c, total, mind, avgd, kp) ==
    [Latitude |-> lat, Longitude |-> long, Altitude |-> alt, DateTime |-> datetime,
     N_res |-> n, E_res |-> e, C_res |-> c, TotalPoints |-> total,
     Minimum_Distance |-> mind, Average_Distance |-> avgd, Kp |-> kp]

(* lines 61-142 for one satellite: the copy with dT, distance and r, the
   space kernel and the quality filter *)
kernel(tk, gps_lat, gps_long, gps_epoch, r) ==
    filter_flags(space_filter(with_dT_distance_r(tk, gps_lat, gps_long, gps_epoch, r)))

(* line 177 *)
with_Dj(swarm_filtered, dt_seconds) ==
    Rows([j \in 1..Len(swarm_filtered) |-> swarm_filtered[j] @@
        [Dj |-> DistJ(swarm_filtered[j].distance, swarm_filtered[j].r,
                      swarm_filtered[j].dT, dt_seconds)]])

(* line 178: W = 1 / Dj ** 2, Dj carried as its square *)
with_W(swarm_filtered) ==
    Rows([j \in 1..Len(swarm_filtered) |-> swarm_filtered[j] @@
        [W |-> fdiv(Flt(1), swarm_filtered[j].Dj)]])

(* line 189 *)
divide_by_sum_w(swarm_filtered, sum_w) ==
    Rows([j \in 1..Len(swarm_filtered) |-> swarm_filtered[j] @@
        [Wj |-> fdiv(swarm_filtered[j].W, sum_w)]])

with_Wj_not_normalized(swarm_filtered) ==
    divide_by_sum_w(swarm_filtered, Flt(1))

(* lines 187-189 *)
with_Wj(swarm_filtered) ==
    divide_by_sum_w(swarm_filtered, Series_sum(Column(swarm_filtered, "W")))

(* lines 162-164 and 198-220 on the weighted frame *)
idw_return(gps_lat, gps_long, gps_altitude, gps_datetime, tks, swarm_filtered) ==
    [raised |-> "none",
     ret |-> Interpolation_record(gps_lat, gps_long, gps_altitude, gps_datetime,
                Series_sum(weighted(swarm_filtered, "N_res")),
                Series_sum(weighted(swarm_filtered, "E_res")),
                Series_sum(weighted(swarm_filtered, "C_res")),
                Len(swarm_filtered),
                Series_min(FltColumn(swarm_filtered, "distance")),
                Series_mean(FltColumn(swarm_filtered, "distance")),
                Series_mean(FltColumn(swarm_filtered, "Kp"))),
     swarm_filtered |-> swarm_filtered,
     sum_w |-> Series_sum(Column(swarm_filtered, "W"))] @@ tks

(* lines 61-220, after the three time windows and the radius are taken *)
idw_kernels(gps_lat, gps_long, gps_altitude, gps_datetime, gps_epoch, tks, rad, dt_seconds) ==
    IF ~(tks.tk_a.has_columns /\ tks.tk_b.has_columns /\ tks.tk_c.has_columns)
    THEN \* line 85-87: tk['Latitude'] on a frame without columns
         [raised |-> "KeyError", ret |-> <<>>] @@ tks @@ NoLocals
    ELSE IF rad.raised
    THEN \* line 100
         [raised |-> "ValueError", ret |-> <<>>] @@ tks @@ NoLocals
    ELSE idw_return(gps_lat, gps_long, gps_altitude, gps_datetime, tks,
            with_Wj(with_W(with_Dj(
                concat_keys(kernel(tks.tk_a.rows, gps_lat, gps_long, gps_epoch, rad.nlat),
                            kernel(tks.tk_b.rows, gps_lat, gps_long, gps_epoch, rad.nlat),
                            kernel(tks.tk_c.rows, gps_lat, gps_long, gps_epoch, rad.nlat)),
                dt_seconds))))

(* The value of a call: raised names the exception ("none" when the call   *)
(* returns), ret is the returned dictionary, the other fields are locals.  *)
st_idw_process(gps_lat, gps_long, gps_altitude, gps_datetime, gps_epoch, sw_a, sw_b, sw_c, dt_seconds) ==
    idw_kernels(gps_lat, gps_long, gps_altitude, gps_datetime, gps_epoch,
        [tk_a |-> DfTime_func(sw_a, gps_epoch, dt_seconds),
         tk_b |-> DfTime_func(sw_b, gps_epoch, dt_seconds),
         tk_c |-> DfTime_func(sw_c, gps_epoch, dt_seconds)],
        Kradius(gps_lat), dt_seconds)

----------------------------------------------------------------------------
(* Inputs *)

Q0 == 108000                \* epoch of the first GPS fix (a whole minute)
STEP == 10800               \* a time offset between HALF and DEFAULT_DT_SECONDS
HALF == 7200                \* a configured dt_seconds other than the default

Swarm_row(epoch, lat, n, e, c, f_res, flags_f, flags_b, kp) ==
    [epoch |-> epoch, Latitude |-> lat, Longitude |-> Meridian,
     N_res |-> n, E_res |-> e, C_res |-> c, F_res |-> f_res,
     Flags_F |-> flags_f, Flags_B |-> flags_b, Kp |-> kp]

GPS_row(lat, epoch) ==
    [gpsLat |-> lat, gpsLong |-> Meridian, gpsAltitude |-> 0,
     gpsDateTime |-> epoch, epoch |-> epoch]

(* Record catalogues, each ordered by epoch as the provider delivers them *)
CatA == <<Swarm_row(Q0 - DEFAULT_DT_SECONDS - 1, 74, 11, -3, 7, 0, 0, 0, 1),
          Swarm_row(Q0 - DEFAULT_DT_SECONDS, 74, 20, 4, -8, 10, 0, 0, 2),
          Swarm_row(Q0 - HALF, 74, 35, 6, 2, 2001, 0, 0, 3),
          Swarm_row(Q0, 74, 10, -5, 9, -15, 1, 0, 1),
          Swarm_row(Q0, 69, 40, 8, -6, 5, 0, 1, 4),
          Swarm_row(Q0, 79, -30, 12, 1, 0, 0, 0, 2),
          Swarm_row(Q0 + DEFAULT_DT_SECONDS, 74, 25, -9, 3, 0, 0, 2, 5)>>

CatB == <<Swarm_row(Q0 - HALF, 74, 60, 1, 1, 0, 0, 0, 1),
          Swarm_row(Q0, 74, -20, 7, 4, 100, 0, 0, 3),
          Swarm_row(Q0, 74, 15, 2, -2, 0, 255, 0, 2),
          Swarm_row(Q0 + HALF + 1, 80, 5, -4, 6, 0, 1, 1, 1)>>

CatC == <<Swarm_row(Q0, 74, 30, 3, 5, -2000, 0, 0, 2),
          Swarm_row(Q0, 80, 70, 9, 9, 0, 0, 0, 6),
          Swarm_row(Q0 + DEFAULT_DT_SECONDS, 74, -10, 0, 8, 2000, 1, 1, 4)>>

PipeCat == <<Swarm_row(Q0, 74, 10, -5, 9, 0, 0, 0, 1),
             Swarm_row(Q0, 80, 50, 6, 2, 0, 0, 0, 2),
             Swarm_row(Q0 + STEP, 74, 30, 8, -6, 0, 0, 0, 3)>>

PipeCatB == <<PipeCat[1], PipeCat[2]>>
PipeCatC == <<PipeCat[2]>>

RECURSIVE Pick(_, _, _)
Pick(cat, I, j) ==
    IF j > Len(cat) THEN <<>>
    ELSE (IF j \in I THEN <<cat[j]>> ELSE <<>>) \o Pick(cat, I, j + 1)

(* Every series of at most MaxRecs records of a catalogue, in epoch order *)
SeriesOver(cat) ==
    {Pick(cat, I, 1) : I \in {J \in SUBSET (1..Len(cat)) : Cardinality(J) <= MaxRecs}}

GPSPoints == {GPS_row(69, Q0), GPS_row(90, Q0)}
QueryPoints == {GPS_row(69, Q0), GPS_row(-69, Q0), GPS_row(90, Q0)}

(* A trajectory has at least one point: identify_unique_dates (core.py:64)
   runs before any loop and does not return for a frame without rows *)
SeqsUpTo(S, n) == UNION {[1..m -> S] : m \in 1..n}

(* Optional parameters: <<>> is None, <<v>> is the value v *)
None == <<>>
Some(v) == <<v>>
params_get(p, default) == IF p = None THEN default ELSE p[1]

NoCall == [pc |-> "ready", raised |-> "none", ret |-> <<>>, dt_seconds |-> 0] @@ NoLocals

(* fn_call holds one call of a function of the library on its own: its
   arguments, and its outcome once it has returned *)
NoFunctionCall == [pc |-> "idle"]

----------------------------------------------------------------------------
(* One call of st_idw_process on one query point (SpecIDW) *)

InitIDW ==
    /\ gps_df \in {<<p>> : p \in QueryPoints}
    /\ swarm_a \in SeriesOver(CatA)
    /\ swarm_b \in SeriesOver(CatB)
    /\ swarm_c \in SeriesOver(CatC)
    /\ params \in {[dt_seconds |-> Some(d), chunk_size |-> None, n_cores |-> 1] :
                       d \in {DEFAULT_DT_SECONDS, HALF}}
    /\ seq_pc = "idle" /\ results = <<>> /\ seq_out = <<>>
    /\ par_pc = "idle" /\ gps_chunks = <<>> /\ chunk_state = <<>> /\ chunk_out = <<>>
    /\ finish_order = <<>> /\ imap_results = <<>> /\ final_df = <<>> /\ par_out = <<>>
    /\ idw = NoCall /\ fn_call = NoFunctionCall
    /\ dates_pc = "idle" /\ dates_df = <<>> /\ unique_dates_df = <<>>

Call_st_idw_process ==
    /\ idw.pc = "ready"
    /\ LET row == gps_df[1]
           DT  == params.dt_seconds[1]
           out == st_idw_process(row.gpsLat, row.gpsLong, row.gpsAltitude,
                                 row.gpsDateTime, row.epoch,
                                 swarm_a, swarm_b, swarm_c, DT)
       IN  idw' = [pc |-> IF out.raised = "none" THEN "returned" ELSE "raised",
                   dt_seconds |-> DT] @@ out
    /\ UNCHANGED <<gps_df, swarm_a, swarm_b, swarm_c, params, seq_pc, results, seq_out,
                   par_pc, gps_chunks, chunk_state, chunk_out, finish_order,
                   imap_results, final_df, par_out, dates_pc, dates_df, unique_dates_df,
                   fn_call>>

NextIDW == Call_st_idw_process

SpecIDW == InitIDW /\ [][NextIDW]_vars

----------------------------------------------------------------------------
(* chaos.py *)

fneg(x) == IF x.k = "num" THEN [x EXCEPT !.n = -x.n] ELSE x
fsub(x, y) == fadd(x, fneg(y))

SECONDS_PER_DAY == 86400

(* The CHAOS model and gg_to_geo are evaluated outside this module: they   *)
(* stand here as fixed functions of colatitude and day with values in nT,  *)
(* and sd, cd as a fixed exact sine/cosine pair.                           *)
synth_values_tdep(time, theta, phi) ==
    [r |-> Flt(-(576 + theta)), t |-> Flt(-(70 + time)), phi |-> Flt(38)]
synth_values_static(theta, phi) == [r |-> Flt(-1), t |-> Flt(2), phi |-> Flt(1)]
synth_values_gsm(time, theta, phi) == [r |-> Flt(-3), t |-> Flt(4), phi |-> Flt(-2)]
gg_to_geo(h, gdcolat) == [sd |-> Num(3, 5), cd |-> Num(4, 5)]

(* lines 64-74: the sum of two fields in the (r, theta, phi) frame *)
vec_add(a, b) == [r |-> fadd(a.r, b.r), t |-> fadd(a.t, b.t), phi |-> fadd(a.phi, b.phi)]

to_geodetic_NEC_rotated_back(B, geo) ==
    [X_obs |-> fsub(fmul(fneg(B.t), geo.cd), fmul(fneg(B.r), geo.sd)),
     Y_obs |-> B.phi,
     Z_obs |-> fadd(fmul(fneg(B.r), geo.cd), fmul(fneg(B.t), geo.sd))]

(* lines 77-94: (r, theta, phi) to X, Y, Z and the rotation into the
   geodetic frame with sd and cd *)
to_geodetic_NEC(B, geo) ==
    [X_obs |-> fadd(fmul(fneg(B.t), geo.cd), fmul(fneg(B.r), geo.sd)),
     Y_obs |-> B.phi,
     Z_obs |-> fsub(fmul(fneg(B.r), geo.cd), fmul(fneg(B.t), geo.sd))]

(* lines 64-96 on one row, given the model contributions at its position *)
chaos_fields_internal_is_full(row, geo, core, crust, magneto) ==
    LET B_swarm  == [r |-> fneg(row.C_res), t |-> fneg(row.N_res), phi |-> row.E_res]
        B_ground == vec_add(vec_add(vec_add(core, crust), magneto), B_swarm)
        obs      == to_geodetic_NEC(B_ground, geo)
    IN  [X_obs |-> obs.X_obs, Y_obs |-> obs.Y_obs, Z_obs |-> obs.Z_obs,
         X_obs_internal |-> obs.X_obs,
         Y_obs_internal |-> obs.Y_obs,
         Z_obs_internal |-> obs.Z_obs]

chaos_fields(row, geo, core, crust, magneto) ==
    LET B_swarm  == [r |-> fneg(row.C_res), t |-> fneg(row.N_res), phi |-> row.E_res]
        B_ground == vec_add(vec_add(vec_add(core, crust), magneto), B_swarm)
        B_ground_internal == vec_add(core, crust)
        obs          == to_geodetic_NEC(B_ground, geo)
        obs_internal == to_geodetic_NEC(B_ground_internal, geo)
    IN  [X_obs |-> obs.X_obs, Y_obs |-> obs.Y_obs, Z_obs |-> obs.Z_obs,
         X_obs_internal |-> obs_internal.X_obs,
         Y_obs_internal |-> obs_internal.Y_obs,
         Z_obs_internal |-> obs_internal.Z_obs]

(* lines 47-61: colatitude, day and the core and crust contributions of a row *)
mjd_day(row) == row.DateTime \div SECONDS_PER_DAY
chaos_row_with(row, magneto) ==
    chaos_fields(row, gg_to_geo(row.Altitude, 90 - row.Latitude),
                 synth_values_tdep(mjd_day(row), 90 - row.Latitude, row.Longitude),
                 synth_values_static(90 - row.Latitude, row.Longitude),
                 magneto)

(* chaos_ground_values on one row of GPS_ResInt; numpy works element by
   element, so the six arrays are the rows' values in order *)
chaos_row(row) ==
    chaos_row_with(row, synth_values_gsm(mjd_day(row), 90 - row.Latitude, row.Longitude))

chaos_ground_values_failing_as_a_whole(GPS_ResInt) ==
    IF \E j \in DOMAIN GPS_ResInt : isnan(GPS_ResInt[j].N_res)
    THEN Rows([j \in 1..Len(GPS_ResInt) |->
            [X_obs |-> NaN, Y_obs |-> NaN, Z_obs |-> NaN,
             X_obs_internal |-> NaN, Y_obs_internal |-> NaN, Z_obs_internal |-> NaN]])
    ELSE Rows([j \in 1..Len(GPS_ResInt) |-> chaos_row(GPS_ResInt[j])])

chaos_ground_values(GPS_ResInt) ==
    Rows([j \in 1..Len(GPS_ResInt) |-> chaos_row(GPS_ResInt[j])])

(* core.py:171-188, parallel_processing.py:128-136: the six field columns *)
assign_chaos_columns(df, obs) ==
    Rows([j \in 1..Len(df) |-> df[j] @@
        [N |-> obs[j].X_obs, E |-> obs[j].Y_obs, C |-> obs[j].Z_obs,
         N_Obs |-> obs[j].X_obs_internal, E_Obs |-> obs[j].Y_obs_internal,
         C_Obs |-> obs[j].Z_obs_internal]])

(* numpy.sqrt: the root is carried by its radicand (kind "root"); NaN for a
   negative argument *)
fsign(x) == IF x.n > 0 THEN 1 ELSE IF x.n < 0 THEN -1 ELSE 0
np_sqrt(x) ==
    IF isnan(x) \/ (x.k = "num" /\ x.n < 0) THEN NaN
    ELSE IF x.k = "inf" THEN Inf
    ELSE [k |-> "root", n |-> x.n, d |-> x.d]

(* numpy.arctan2 of two finite values or NaN: the angle in quarter turns
   (pi/2), exact when lo = hi and strictly between lo and hi otherwise *)
Angle(lo, hi) == [k |-> "angle", lo |-> lo, hi |-> hi]
np_arctan2(y, x) ==
    IF isnan(y) \/ isnan(x) THEN NaN
    ELSE IF fsign(y) = 0 THEN (IF fsign(x) < 0 THEN Angle(2, 2) ELSE Angle(0, 0))
    ELSE IF fsign(y) > 0
    THEN (IF fsign(x) > 0 THEN Angle(0, 1)
          ELSE IF fsign(x) = 0 THEN Angle(1, 1) ELSE Angle(1, 2))
    ELSE (IF fsign(x) > 0 THEN Angle(-1, 0)
          ELSE IF fsign(x) = 0 THEN Angle(-1, -1) ELSE Angle(-2, -1))

(* numpy.degrees: radians * 180 / pi *)
np_degrees(a) == IF isnan(a) THEN NaN ELSE Angle(90 * a.lo, 90 * a.hi)

horizontal_intensity(N, E) == np_sqrt(fadd(fsquare(N), fsquare(E)))

geomagnetic_components_I_swapped(N, E, C) ==
    [H |-> horizontal_intensity(N, E),
     D |-> np_degrees(np_arctan2(E, N)),
     I |-> np_degrees(np_arctan2(horizontal_intensity(N, E), C)),
     F |-> np_sqrt(fadd(fadd(fsquare(N), fsquare(E)), fsquare(C)))]

(* core.py:191-194, parallel_processing.py:139-142 *)
geomagnetic_components(N, E, C) ==
    [H |-> horizontal_intensity(N, E),
     D |-> np_degrees(np_arctan2(E, N)),
     I |-> np_degrees(np_arctan2(C, horizontal_intensity(N, E))),
     F |-> np_sqrt(fadd(fadd(fsquare(N), fsquare(E)), fsquare(C)))]

(* The rows of the pipeline carry the six field columns; H, D, I, F are a
   function of N, E, C of the same row and are taken by
   geomagnetic_components on its own. *)
add_chaos_columns(df) == assign_chaos_columns(df, chaos_ground_values(df))

(* core.py:191-194, parallel_processing.py:139-142 on the rows of a frame *)
add_scalar_columns(df) ==
    Rows([j \in 1..Len(df) |-> df[j] @@ geomagnetic_components(df[j].N, df[j].E, df[j].C)])

drop_columns(df, columns) ==
    Rows([j \in 1..Len(df) |-> [f \in (DOMAIN df[j]) \ columns |-> df[j][f]]])

----------------------------------------------------------------------------
(* core.py, parallel_processing.py: the annotation pipeline (Spec).        *)
(* The same trajectory and series are annotated by the sequential loop     *)
(* and then by the parallel pool.                                          *)

MIN_CHUNK_SIZE == 50
CHUNK_CAP == 200

Min(a, b) == IF a < b THEN a ELSE b
Max(a, b) == IF a > b THEN a ELSE b

bad_point_result(row) ==
    Interpolation_record(row.gpsLat, row.gpsLong, row.gpsAltitude, row.gpsDateTime,
                         NaN, NaN, NaN, 0, NaN, NaN, NaN)

(* core.py:149 is a bare except; parallel_processing.py:105 is except Exception *)
ExceptionSubclasses == {"KeyError", "ValueError"}
seq_except_only_KeyError(exc) == exc = "KeyError"
seq_except_catches(exc) == TRUE
chunk_except_catches(exc) == exc \in ExceptionSubclasses

(* core.py:144-148 passes no dt_seconds; core.py:128 passes the configured one *)
seq_dt_seconds(p) == DEFAULT_DT_SECONDS
par_dt_seconds(p) == params_get(p.dt_seconds, DEFAULT_DT_SECONDS)

get_optimal_chunk_size(total_gps_points, n_cores) ==
    Min(Max(total_gps_points \div (n_cores * 4), MIN_CHUNK_SIZE), CHUNK_CAP)

RECURSIVE split_from(_, _, _)
split_from(df, chunk_size, i) ==
    IF i >= Len(df) THEN <<>>
    ELSE <<SubSeq(df, i + 1, Min(i + chunk_size, Len(df)))>>
         \o split_from(df, chunk_size, i + chunk_size)

split_gps_trajectory_into_chunks(df, chunk_size) == split_from(df, chunk_size, 0)

(* parallel_processing.py:95-120, the interpolation loop over one chunk;
   raised when an exception escapes the handler *)
chunk_point(gps_row, out) ==
    IF out.raised = "none" THEN [raised |-> FALSE, rows |-> <<out.ret>>]
    ELSE IF chunk_except_catches(out.raised)
    THEN [raised |-> FALSE, rows |-> <<bad_point_result(gps_row)>>]
    ELSE [raised |-> TRUE, rows |-> <<>>]

chunk_append(first, rest) ==
    IF first.raised \/ rest.raised THEN [raised |-> TRUE, rows |-> <<>>]
    ELSE [raised |-> FALSE, rows |-> first.rows \o rest.rows]

RECURSIVE chunk_interpolation(_, _, _, _, _)
chunk_interpolation(gps_chunk, sw_a, sw_b, sw_c, dt_seconds) ==
    IF gps_chunk = <<>> THEN [raised |-> FALSE, rows |-> <<>>]
    ELSE chunk_append(
            chunk_point(gps_chunk[1],
                st_idw_process(gps_chunk[1].gpsLat, gps_chunk[1].gpsLong,
                               gps_chunk[1].gpsAltitude, gps_chunk[1].gpsDateTime,
                               gps_chunk[1].epoch, sw_a, sw_b, sw_c, dt_seconds)),
            chunk_interpolation(Tail(gps_chunk), sw_a, sw_b, sw_c, dt_seconds))

(* parallel_processing.py:123-149, the CHAOS phase on the chunk's records *)
chaos_phase(interpolation_results) ==
    IF interpolation_results.raised THEN interpolation_results
    ELSE [raised |-> FALSE, rows |-> add_chaos_columns(interpolation_results.rows)]

process_gps_chunk_complete_pipeline(gps_chunk, sw_a, sw_b, sw_c, dt_seconds) ==
    chaos_phase(chunk_interpolation(gps_chunk, sw_a, sw_b, sw_c, dt_seconds))

(* core.py:198-217: drop the duplicated columns and put the original GPS
   columns in front of each row (both frames have the index 0..n-1) *)
COLUMNS_TO_DROP == {"Latitude", "Longitude", "DateTime", "Altitude",
                    "N_res", "E_res", "C_res"}
merge_with_gps(gps_df_original, annotated_df) ==
    LET dropped == drop_columns(annotated_df, COLUMNS_TO_DROP)
    IN  Rows([j \in 1..Len(dropped) |-> dropped[j] @@ gps_df_original[j]])

imap_unordered_next(order, state) ==
    {k \in DOMAIN state : state[k] = "finished" /\ \A j \in DOMAIN order : order[j] # k}

(* pool.imap: the chunk whose result the iterator yields next *)
imap_next(order, state) ==
    IF Len(order) < Len(state) /\ state[Len(order) + 1] = "finished"
    THEN {Len(order) + 1} ELSE {}

RECURSIVE pd_concat(_)
pd_concat(dfs) == IF dfs = <<>> THEN <<>> ELSE dfs[1] \o pd_concat(Tail(dfs))

Init ==
    /\ gps_df \in SeqsUpTo(GPSPoints, MaxPts)
    /\ swarm_a \in SeriesOver(PipeCat)
    /\ swarm_b \in SeriesOver(PipeCatB)
    /\ swarm_c \in SeriesOver(PipeCatC)
    /\ params \in [dt_seconds : {None, Some(HALF)},
                   chunk_size : {None} \cup {Some(n) : n \in 1..MaxChunk},
                   n_cores : 1..MaxCores]
    /\ seq_pc = "loop" /\ results = <<>> /\ seq_out = <<>>
    /\ par_pc = "idle" /\ gps_chunks = <<>> /\ chunk_state = <<>> /\ chunk_out = <<>>
    /\ finish_order = <<>> /\ imap_results = <<>> /\ final_df = <<>> /\ par_out = <<>>
    /\ idw = NoCall /\ fn_call = NoFunctionCall
    /\ dates_pc = "idle" /\ dates_df = <<>> /\ unique_dates_df = <<>>

(* core.py:143-164, one iteration: the result appended for the row, <<>> when
   the exception is not caught *)
seq_point(row, out) ==
    IF out.raised = "none" THEN <<out.ret>>
    ELSE IF seq_except_catches(out.raised) THEN <<bad_point_result(row)>>
    ELSE <<>>

seq_vars == <<seq_pc, results, seq_out>>
par_vars == <<par_pc, gps_chunks, chunk_state, chunk_out, finish_order, imap_results,
              final_df, par_out>>
input_vars == <<gps_df, swarm_a, swarm_b, swarm_c, params>>
other_vars == <<idw, dates_pc, dates_df, unique_dates_df, fn_call>>

(* core.py:142-164, one iteration of the sequential loop *)
SeqStep ==
    /\ seq_pc = "loop" /\ Len(results) < Len(gps_df)
    /\ LET row == gps_df[Len(results) + 1]
           result == seq_point(row,
                        st_idw_process(row.gpsLat, row.gpsLong, row.gpsAltitude,
                                       row.gpsDateTime, row.epoch,
                                       swarm_a, swarm_b, swarm_c, seq_dt_seconds(params)))
       IN  IF result # <<>>
           THEN results' = results \o result /\ UNCHANGED seq_pc
           ELSE seq_pc' = "aborted" /\ UNCHANGED results
    /\ UNCHANGED <<seq_out, input_vars, par_vars, other_vars>>

(* core.py:165-222: the loop is over; chaos_ground_values raises KeyError on
   the frame without columns that an empty list of results makes *)
SeqEnd ==
    /\ seq_pc = "loop" /\ Len(results) = Len(gps_df)
    /\ IF results = <<>>
       THEN seq_pc' = "raised" /\ UNCHANGED seq_out
       ELSE /\ seq_out' = merge_with_gps(gps_df, add_chaos_columns(results))
            /\ seq_pc' = "done"
    /\ UNCHANGED <<results, input_vars, par_vars, other_vars>>

(* parallel_processing.py:197-215 *)
ParStart ==
    /\ par_pc = "idle" /\ seq_pc \in {"done", "raised", "aborted"}
    /\ LET chunk_size == params_get(params.chunk_size,
                             get_optimal_chunk_size(Len(gps_df), params.n_cores))
           chunks == split_gps_trajectory_into_chunks(gps_df, chunk_size)
       IN  /\ gps_chunks' = chunks
           /\ chunk_state' = [k \in 1..Len(chunks) |-> "queued"]
           /\ chunk_out' = [k \in 1..Len(chunks) |-> <<>>]
    /\ par_pc' = "pool"
    /\ UNCHANGED <<finish_order, imap_results, final_df, par_out,
                   input_vars, seq_vars, other_vars>>

(* a free worker of the pool takes the next task of the queue *)
WorkerTake(k) ==
    /\ par_pc = "pool" /\ chunk_state[k] = "queued"
    /\ \A j \in 1..(k - 1) : chunk_state[j] # "queued"
    /\ Cardinality({j \in DOMAIN chunk_state : chunk_state[j] = "running"}) < params.n_cores
    /\ chunk_state' = [chunk_state EXCEPT ![k] = "running"]
    /\ UNCHANGED <<par_pc, gps_chunks, chunk_out, finish_order, imap_results, final_df,
                   par_out, input_vars, seq_vars, other_vars>>

(* parallel_processing.py:71-149 in a worker *)
WorkerFinish(k) ==
    /\ par_pc = "pool" /\ chunk_state[k] = "running"
    /\ LET out == process_gps_chunk_complete_pipeline(gps_chunks[k],
                      swarm_a, swarm_b, swarm_c, par_dt_seconds(params))
       IN  IF out.raised
           THEN par_pc' = "aborted" /\ UNCHANGED <<chunk_state, chunk_out, finish_order>>
           ELSE /\ chunk_state' = [chunk_state EXCEPT ![k] = "finished"]
                /\ chunk_out' = [chunk_out EXCEPT ![k] = out.rows]
                /\ finish_order' = Append(finish_order, k)
                /\ UNCHANGED par_pc
    /\ UNCHANGED <<gps_chunks, imap_results, final_df, par_out,
                   input_vars, seq_vars, other_vars>>

(* parallel_processing.py:216-221: list(pool.imap(...)) takes one result *)
ImapNext ==
    /\ par_pc = "pool"
    /\ \E k \in imap_next(imap_results, chunk_state) :
           imap_results' = Append(imap_results, k)
    /\ UNCHANGED <<par_pc, gps_chunks, chunk_state, chunk_out, finish_order, final_df,
                   par_out, input_vars, seq_vars, other_vars>>

(* parallel_processing.py:224-231 and core.py:198-222: pd.concat raises
   ValueError on an empty list of chunk results *)
ParConcat ==
    /\ par_pc = "pool" /\ Len(imap_results) = Len(gps_chunks)
    /\ IF imap_results = <<>>
       THEN par_pc' = "raised" /\ UNCHANGED <<final_df, par_out>>
       ELSE /\ final_df' = drop_columns(
                              pd_concat([j \in 1..Len(imap_results) |->
                                            chunk_out[imap_results[j]]]),
                              {"N_res", "E_res", "C_res"})
            /\ par_out' = merge_with_gps(gps_df, final_df')
            /\ par_pc' = "done"
    /\ UNCHANGED <<gps_chunks, chunk_state, chunk_out, finish_order, imap_results,
                   input_vars, seq_vars, other_vars>>

Next ==
    \/ SeqStep
    \/ SeqEnd
    \/ ParStart
    \/ \E k \in DOMAIN chunk_state : WorkerTake(k)
    \/ \E k \in DOMAIN chunk_state : WorkerFinish(k)
    \/ ImapNext
    \/ ParConcat

Spec == Init /\ [][Next]_vars

----------------------------------------------------------------------------
(* date_utils.py (SpecDates) *)

(* t.strftime('%H:%M:%S') as the sequence of its character codes *)
ZERO == 48
COLON == 58
strftime_HMS(t) ==
    <<ZERO + (t[1] \div 10), ZERO + (t[1] % 10), COLON,
      ZERO + (t[2] \div 10), ZERO + (t[2] % 10), COLON,
      ZERO + (t[3] \div 10), ZERO + (t[3] % 10)>>

(* str < str: the first differing character decides, a proper prefix is less *)
str_lt(a, b) ==
    \/ \E i \in 1..Min(Len(a), Len(b)) :
          /\ a[i] < b[i]
          /\ \A j \in 1..(i - 1) : a[j] = b[j]
    \/ /\ Len(a) < Len(b)
       /\ \A j \in 1..Len(a) : a[j] = b[j]

STR_04_00_00 == strftime_HMS(<<4, 0, 0>>)
STR_20_00_00 == strftime_HMS(<<20, 0, 0>>)

late_mask_inclusive(time_str) == ~str_lt(time_str, STR_20_00_00)

early_mask(time_str) == str_lt(time_str, STR_04_00_00)
late_mask(time_str) == str_lt(STR_20_00_00, time_str)

(* Series.unique(): the values in order of first appearance *)
RECURSIVE unique(_)
unique(s) ==
    IF s = <<>> THEN <<>>
    ELSE LET front == SubSeq(s, 1, Len(s) - 1)
             last  == s[Len(s)]
         IN  IF \E j \in DOMAIN front : front[j] = last
             THEN unique(front) ELSE Append(unique(front), last)

(* drop_duplicates(subset=['date']): the first row of every date is kept *)
RECURSIVE drop_duplicates_date(_)
drop_duplicates_date(df) ==
    IF df = <<>> THEN <<>>
    ELSE LET front == SubSeq(df, 1, Len(df) - 1)
             last  == df[Len(df)]
         IN  IF \E j \in DOMAIN front : front[j].date = last.date
             THEN drop_duplicates_date(front)
             ELSE Append(drop_duplicates_date(front), last)

(* sort_values('date') of rows with distinct dates *)
RECURSIVE sort_values_date(_)
sort_values_date(df) ==
    IF df = <<>> THEN <<>>
    ELSE LET m == CHOOSE j \in DOMAIN df : \A i \in DOMAIN df : df[j].date <= df[i].date
         IN  <<df[m]>> \o sort_values_date(SubSeq(df, 1, m - 1) \o SubSeq(df, m + 1, Len(df)))

(* lines 56-82: the dictionaries appended for the dates of one loop *)
dates_data_of(dates, offset, is_buffer, buffer_type) ==
    Rows([j \in 1..Len(dates) |->
        [date |-> dates[j] + offset, is_buffer_date |-> is_buffer,
         buffer_type |-> buffer_type, original_date |-> dates[j]]])

identify_unique_dates(df) ==
    LET time_str == Rows([j \in 1..Len(df) |-> df[j] @@ [time_str |-> strftime_HMS(df[j].times)]])
        early_rows == SelectSeq(time_str, LAMBDA row : early_mask(row.time_str))
        late_rows  == SelectSeq(time_str, LAMBDA row : late_mask(row.time_str))
        original == dates_data_of(unique(Column(df, "dates")), 0, FALSE, "None")
        early == dates_data_of(unique(Column(early_rows, "dates")), -1, TRUE, "early_morning")
        late  == dates_data_of(unique(Column(late_rows, "dates")), 1, TRUE, "late_evening")
        dates_data == original \o early \o late
    IN  sort_values_date(drop_duplicates_date(dates_data))

Days == {10, 11, 12}
Times == {<<0, 0, 0>>, <<3, 59, 59>>, <<4, 0, 0>>, <<9, 5, 30>>,
          <<20, 0, 0>>, <<20, 0, 1>>}
DatePoints == [dates : Days, times : Times]

InitDates ==
    /\ dates_df \in SeqsUpTo(DatePoints, MaxDatePts)
    /\ dates_pc = "ready" /\ unique_dates_df = <<>>
    /\ gps_df = <<>> /\ swarm_a = <<>> /\ swarm_b = <<>> /\ swarm_c = <<>>
    /\ params = [dt_seconds |-> None, chunk_size |-> None, n_cores |-> 1]
    /\ seq_pc = "idle" /\ results = <<>> /\ seq_out = <<>>
    /\ par_pc = "idle" /\ gps_chunks = <<>> /\ chunk_state = <<>> /\ chunk_out = <<>>
    /\ finish_order = <<>> /\ imap_results = <<>> /\ final_df = <<>> /\ par_out = <<>>
    /\ idw = NoCall /\ fn_call = NoFunctionCall

Call_identify_unique_dates ==
    /\ dates_pc = "ready"
    /\ unique_dates_df' = identify_unique_dates(dates_df)
    /\ dates_pc' = "returned"
    /\ UNCHANGED <<dates_df, idw, fn_call, input_vars, seq_vars, par_vars>>

NextDates == Call_identify_unique_dates

SpecDates == InitDates /\ [][NextDates]_vars

----------------------------------------------------------------------------
(* Kradius on two latitudes in whole degrees (SpecRadius) *)

MaxLatitude == 92
Latitudes == (-MaxLatitude)..MaxLatitude

InitRadius ==
    /\ fn_call \in [pc : {"ready"}, lat : Latitudes, other_lat : Latitudes]
    /\ gps_df = <<>> /\ swarm_a = <<>> /\ swarm_b = <<>> /\ swarm_c = <<>>
    /\ params = [dt_seconds |-> None, chunk_size |-> None, n_cores |-> 1]
    /\ seq_pc = "idle" /\ results = <<>> /\ seq_out = <<>>
    /\ par_pc = "idle" /\ gps_chunks = <<>> /\ chunk_state = <<>> /\ chunk_out = <<>>
    /\ finish_order = <<>> /\ imap_results = <<>> /\ final_df = <<>> /\ par_out = <<>>
    /\ idw = NoCall
    /\ dates_pc = "idle" /\ dates_df = <<>> /\ unique_dates_df = <<>>

Call_Kradius ==
    /\ fn_call.pc = "ready"
    /\ fn_call' = [pc |-> "returned", lat |-> fn_call.lat, other_lat |-> fn_call.other_lat,
                   out |-> Kradius(fn_call.lat), other_out |-> Kradius(fn_call.other_lat)]
    /\ UNCHANGED <<idw, dates_pc, dates_df, unique_dates_df, input_vars, seq_vars, par_vars>>

NextRadius == Call_Kradius

SpecRadius == InitRadius /\ [][NextRadius]_vars

----------------------------------------------------------------------------
(* chaos_ground_values on two one-row frames (SpecChaos).  The magnetospheric
   contribution of the CHAOS model is an input of each call. *)

Residuals == {<<NaN, NaN, NaN>>, <<Flt(0), Flt(0), Flt(0)>>, <<Num(38, 3), Flt(-5), Flt(7)>>}
Magnetospheres == {synth_values_gsm(1, 21, Meridian),
                   [r |-> Flt(6), t |-> Flt(-9), phi |-> Flt(5)]}

ResInt_row(lat, datetime, res) ==
    [Latitude |-> lat, Longitude |-> Meridian, Altitude |-> 0, DateTime |-> datetime,
     N_res |-> res[1], E_res |-> res[2], C_res |-> res[3]]

ResIntRows ==
    {ResInt_row(lat, datetime, res) :
        lat \in {69, 74}, datetime \in {Q0, Q0 + SECONDS_PER_DAY}, res \in Residuals}

InitChaos ==
    /\ fn_call \in [pc : {"ready"}, row : ResIntRows, other_row : ResIntRows,
                     magneto : Magnetospheres, other_magneto : Magnetospheres]
    /\ gps_df = <<>> /\ swarm_a = <<>> /\ swarm_b = <<>> /\ swarm_c = <<>>
    /\ params = [dt_seconds |-> None, chunk_size |-> None, n_cores |-> 1]
    /\ seq_pc = "idle" /\ results = <<>> /\ seq_out = <<>>
    /\ par_pc = "idle" /\ gps_chunks = <<>> /\ chunk_state = <<>> /\ chunk_out = <<>>
    /\ finish_order = <<>> /\ imap_results = <<>> /\ final_df = <<>> /\ par_out = <<>>
    /\ idw = NoCall
    /\ dates_pc = "idle" /\ dates_df = <<>> /\ unique_dates_df = <<>>

Call_chaos_ground_values ==
    /\ fn_call.pc = "ready"
    /\ fn_call' = [fn_call EXCEPT !.pc = "returned"] @@
                     [out |-> chaos_row_with(fn_call.row, fn_call.magneto),
                      other_out |-> chaos_row_with(fn_call.other_row, fn_call.other_magneto)]
    /\ UNCHANGED <<idw, dates_pc, dates_df, unique_dates_df, input_vars, seq_vars, par_vars>>

NextChaos == Call_chaos_ground_values

SpecChaos == InitChaos /\ [][NextChaos]_vars

----------------------------------------------------------------------------
(* The scalar components H, D, I, F of one row (SpecScalars) *)

Components == {Flt(-4), Flt(-3), Flt(0), Num(1, 2), Flt(3), NaN}

InitScalars ==
    /\ fn_call \in [pc : {"ready"}, N : Components, E : Components, C : Components]
    /\ gps_df = <<>> /\ swarm_a = <<>> /\ swarm_b = <<>> /\ swarm_c = <<>>
    /\ params = [dt_seconds |-> None, chunk_size |-> None, n_cores |-> 1]
    /\ seq_pc = "idle" /\ results = <<>> /\ seq_out = <<>>
    /\ par_pc = "idle" /\ gps_chunks = <<>> /\ chunk_state = <<>> /\ chunk_out = <<>>
    /\ finish_order = <<>> /\ imap_results = <<>> /\ final_df = <<>> /\ par_out = <<>>
    /\ idw = NoCall
    /\ dates_pc = "idle" /\ dates_df = <<>> /\ unique_dates_df = <<>>

Call_geomagnetic_components ==
    /\ fn_call.pc = "ready"
    /\ fn_call' = [fn_call EXCEPT !.pc = "returned"] @@
                     geomagnetic_components(fn_call.N, fn_call.E, fn_call.C)
    /\ UNCHANGED <<idw, dates_pc, dates_df, unique_dates_df, input_vars, seq_vars, par_vars>>

NextScalars == Call_geomagnetic_components

SpecScalars == InitScalars /\ [][NextScalars]_vars

----------------------------------------------------------------------------
(* distance_to_GPS in float64 (SpecDistance).  A float64 is sign s, mantissa m
   (a natural of 53 bits, as its digits in base 2^15, least significant
   first) and exponent e: the value s * m * 2^e.  Multiplication and division
   round to nearest, ties to even, as IEEE 754 does.  Latitudes and
   longitudes are whole degrees. *)

Limb == 2^15

RECURSIVE big_strip(_)
big_strip(a) ==
    IF a = <<>> \/ a[Len(a)] # 0 THEN a ELSE big_strip(SubSeq(a, 1, Len(a) - 1))

RECURSIVE big_mul_from(_, _, _, _)
big_mul_from(a, k, i, carry) ==
    IF i > Len(a) THEN (IF carry = 0 THEN <<>> ELSE <<carry>>)
    ELSE <<(a[i] * k + carry) % Limb>>
         \o big_mul_from(a, k, i + 1, (a[i] * k + carry) \div Limb)

(* a * k for 0 < k < Limb *)
big_mul_small(a, k) == big_mul_from(a, k, 1, 0)

RECURSIVE big_div_from(_, _, _, _)
big_div_from(a, k, i, rem) ==
    IF i = 0 THEN [q |-> <<>>, r |-> rem]
    ELSE LET rest == big_div_from(a, k, i - 1, (rem * Limb + a[i]) % k)
         IN  [q |-> Append(rest.q, (rem * Limb + a[i]) \div k), r |-> rest.r]

(* quotient and remainder of a by k, 0 < k < Limb *)
big_div_small(a, k) ==
    [q |-> big_strip(big_div_from(a, k, Len(a), 0).q),
     r |-> big_div_from(a, k, Len(a), 0).r]

RECURSIVE big_inc(_)
big_inc(a) ==
    IF a = <<>> THEN <<1>>
    ELSE IF a[1] + 1 < Limb THEN <<a[1] + 1>> \o Tail(a)
    ELSE <<0>> \o big_inc(Tail(a))

bit_length(a) ==
    IF a = <<>> THEN 0
    ELSE (Len(a) - 1) * 15 + Cardinality({j \in 0..14 : 2^j <= a[Len(a)]})

(* the float64 nearest to (a + f) * 2^e, where a has at least 53 bits,
   0 <= f < 1 and sticky tells f > 0; shifted holds a without its t low bits *)
round_shifted(shifted, t, sticky, e) ==
    LET half == 2^(t - 1)
        up   == \/ shifted.r > half
                \/ shifted.r = half /\ (sticky \/ shifted.q[1] % 2 = 1)
        q    == IF up THEN big_inc(shifted.q) ELSE shifted.q
    IN  IF bit_length(q) > 53 THEN [m |-> big_div_small(q, 2).q, e |-> e + t + 1]
        ELSE [m |-> q, e |-> e + t]

round_to_float64(a, sticky, e) ==
    IF bit_length(a) = 53 THEN [m |-> a, e |-> e]
    ELSE round_shifted(big_div_small(a, 2^(bit_length(a) - 53)),
                       bit_length(a) - 53, sticky, e)

(* x * a for a whole number x and a float64 a # 0 *)
float64_mul(x, a) ==
    IF x = 0 THEN [s |-> 0, m |-> <<>>, e |-> 0]
    ELSE [s |-> (IF x < 0 THEN -a.s ELSE a.s)] @@
         round_to_float64(big_mul_small(a.m, Abs(x)), FALSE, a.e)

(* a / k for a float64 a and a whole number 0 < k < Limb *)
float64_div(a, k) ==
    IF a.s = 0 THEN a
    ELSE [s |-> a.s] @@
         round_to_float64(big_div_small(<<0>> \o a.m, k).q,
                          big_div_small(<<0>> \o a.m, k).r # 0, a.e - 15)

(* np.pi = 0x1921FB54442D18 * 2^-51 *)
np_pi == [s |-> 1, m |-> <<11544, 10376, 2029, 201>>, e |-> -51]

(* line 30: s_lat*(np.pi)/180.0 *)
times_pi_over_180(x) == float64_div(float64_mul(x, np_pi), 180)

(* lines 31-33: np.deg2rad(x) is x * (pi / 180) *)
np_deg2rad(x) == float64_mul(x, float64_div(np_pi, 180))

(* lines 30-35: whether the distance returned is 0.0 (0) or positive (1).
   d is sin(dlat/2)**2 + cos(s_lat)*cos(e_lat)*sin(dlng/2)**2 with dlat and
   dlng the differences of the converted values: sin, sqrt and arcsin give
   0.0 for 0.0 only, and the cosine of a float64 is never 0.0. *)
distance_to_GPS_float64(s_lat, s_lng, e_lat, e_lng) ==
    IF /\ np_deg2rad(e_lat) = times_pi_over_180(s_lat)
       /\ np_deg2rad(e_lng) = np_deg2rad(s_lng)
    THEN 0 ELSE 1

DistanceLatitudes == {-67, 0, 45, 67, 69, 74, 89}
DistancePoints == [lat : DistanceLatitudes, lng : {Meridian, Meridian + 1}]

InitDistance ==
    /\ fn_call \in [pc : {"ready"}, A : DistancePoints, B : DistancePoints]
    /\ gps_df = <<>> /\ swarm_a = <<>> /\ swarm_b = <<>> /\ swarm_c = <<>>
    /\ params = [dt_seconds |-> None, chunk_size |-> None, n_cores |-> 1]
    /\ seq_pc = "idle" /\ results = <<>> /\ seq_out = <<>>
    /\ par_pc = "idle" /\ gps_chunks = <<>> /\ chunk_state = <<>> /\ chunk_out = <<>>
    /\ finish_order = <<>> /\ imap_results = <<>> /\ final_df = <<>> /\ par_out = <<>>
    /\ idw = NoCall
    /\ dates_pc = "idle" /\ dates_df = <<>> /\ unique_dates_df = <<>>

Call_distance_to_GPS ==
    /\ fn_call.pc = "ready"
    /\ LET A == fn_call.A
           B == fn_call.B
       IN  fn_call' = [pc |-> "returned", A |-> A, B |-> B,
                       AB |-> distance_to_GPS_float64(A.lat, A.lng, B.lat, B.lng),
                       BA |-> distance_to_GPS_float64(B.lat, B.lng, A.lat, A.lng),
                       AA |-> distance_to_GPS_float64(A.lat, A.lng, A.lat, A.lng)]
    /\ UNCHANGED <<idw, dates_pc, dates_df, unique_dates_df, input_vars, seq_vars, par_vars>>

NextDistance == Call_distance_to_GPS

SpecDistance == InitDistance /\ [][NextDistance]_vars

----------------------------------------------------------------------------
(* gps.py: get_gps_data on one row of the CSV file (SpecGPS).  A timestamp is
   the whole minutes since 1970-01-01 00:00, the seconds of the minute and
   the nanoseconds of the second; an altitude is a float64 or null (NaN). *)

RECURSIVE big_from_int(_)
big_from_int(n) == IF n = 0 THEN <<>> ELSE <<n % Limb>> \o big_from_int(n \div Limb)

RECURSIVE big_to_int(_)
big_to_int(a) == IF a = <<>> THEN 0 ELSE a[1] + Limb * big_to_int(Tail(a))

RECURSIVE big_add_from(_, _, _, _)
big_add_from(a, b, i, carry) ==
    IF i > Len(a) /\ i > Len(b) THEN (IF carry = 0 THEN <<>> ELSE <<carry>>)
    ELSE LET x == (IF i <= Len(a) THEN a[i] ELSE 0) + (IF i <= Len(b) THEN b[i] ELSE 0) + carry
         IN  <<x % Limb>> \o big_add_from(a, b, i + 1, x \div Limb)

big_add(a, b) == big_add_from(a, b, 1, 0)

(* a * 10^9 and a // 10^9 *)
big_times_1e9(a) == big_mul_small(big_mul_small(big_mul_small(a, 1000), 1000), 1000)
big_floordiv_1e9(a) ==
    big_div_small(big_div_small(big_div_small(a, 1000).q, 1000).q, 1000).q

(* line 65: negative and null altitudes are set to 0 *)
clamp_altitude(h) == IF isnan(h) \/ h.n < 0 THEN Flt(0) ELSE h

(* line 71: x.replace(second=0) leaves the fraction of the second *)
replace_second_0(ts) == [ts EXCEPT !.second = 0]

(* line 76, astype('int64'): nanoseconds since 1970-01-01 (after 1970) *)
astype_int64(ts) ==
    big_add(big_times_1e9(big_from_int(ts.minute * 60 + ts.second)), big_from_int(ts.nanos))

(* line 76, int64 // 1e9: the int64 becomes the nearest float64 and the
   floor division is one of float64 (exact: the quotient is below 2^31) *)
int64_to_float64(a) ==
    IF bit_length(a) <= 53 THEN [m |-> a, e |-> 0] ELSE round_to_float64(a, FALSE, 0)
floordiv_1e9(a) ==
    LET x == int64_to_float64(a)
    IN  big_to_int(big_floordiv_1e9(big_mul_small(x.m, 2^x.e)))

(* lines 50-80 on one row *)
get_gps_data_row(altitude_col, row) ==
    [gpsLat |-> row.lat, gpsLong |-> row.long,
     gpsAltitude |-> IF altitude_col THEN clamp_altitude(row.height) ELSE Flt(0),
     gpsDateTime |-> replace_second_0(row.timestamp),
     epoch |-> floordiv_1e9(astype_int64(replace_second_0(row.timestamp)))]

GPSMinutes == {23502594, 26297280}      \* 2014-09-08 05:54 and 2020-01-01 00:00
GPSNanos == {0, 500000000, 999999000, 999999900, 999999999}
Heights == {NaN, Flt(-5), Flt(0), Num(241, 2)}
Timestamps == [minute : GPSMinutes, second : {0, 59}, nanos : GPSNanos]
CSVRows == [lat : {69}, long : {Meridian}, height : Heights, timestamp : Timestamps]

InitGPS ==
    /\ fn_call \in [pc : {"ready"}, altitude_col : BOOLEAN, row : CSVRows]
    /\ gps_df = <<>> /\ swarm_a = <<>> /\ swarm_b = <<>> /\ swarm_c = <<>>
    /\ params = [dt_seconds |-> None, chunk_size |-> None, n_cores |-> 1]
    /\ seq_pc = "idle" /\ results = <<>> /\ seq_out = <<>>
    /\ par_pc = "idle" /\ gps_chunks = <<>> /\ chunk_state = <<>> /\ chunk_out = <<>>
    /\ finish_order = <<>> /\ imap_results = <<>> /\ final_df = <<>> /\ par_out = <<>>
    /\ idw = NoCall
    /\ dates_pc = "idle" /\ dates_df = <<>> /\ unique_dates_df = <<>>

Call_get_gps_data ==
    /\ fn_call.pc = "ready"
    /\ fn_call' = [fn_call EXCEPT !.pc = "returned"] @@
                     [out |-> get_gps_data_row(fn_call.altitude_col, fn_call.row)]
    /\ UNCHANGED <<idw, dates_pc, dates_df, unique_dates_df, input_vars, seq_vars, par_vars>>

NextGPS == Call_get_gps_data

SpecGPS == InitGPS /\ [][NextGPS]_vars

----------------------------------------------------------------------------
(* st_idw_process called for the points of a trajectory one after the other
   on the same three series objects (SpecSeries).  swarm_a, swarm_b, swarm_c
   are the objects as the calls leave them, fn_call keeps them as loaded. *)

(* a column assignment on a frame reaches the series it was sliced from only
   when the frame shares the data of the series *)
assigned_dT(SwarmData, GPSTime, DT, shares_data) ==
    IF shares_data
    THEN Rows([j \in 1..Len(SwarmData) |->
            IF GPSTime - DT <= SwarmData[j].epoch /\ SwarmData[j].epoch <= GPSTime + DT
            THEN [dT |-> GPSTime - SwarmData[j].epoch] @@ SwarmData[j]
            ELSE SwarmData[j]])
    ELSE SwarmData

series_after_idw_without_copy(SwarmData, GPSTime, DT) ==
    assigned_dT(SwarmData, GPSTime, DT,
                DfTime_func(SwarmData, GPSTime, DT).has_columns)

(* interpolation.py:61-66: tk = tk.copy() before the first assignment, and
   every later frame (k, swarm_filtered) is made from the copies *)
series_after_idw(SwarmData, GPSTime, DT) ==
    assigned_dT(SwarmData, GPSTime, DT, FALSE)

InitSeries ==
    /\ gps_df \in SeqsUpTo(QueryPoints, MaxPts)
    /\ swarm_a \in SeriesOver(PipeCat)
    /\ swarm_b \in SeriesOver(PipeCatB)
    /\ swarm_c \in SeriesOver(PipeCatC)
    /\ params \in {[dt_seconds |-> Some(d), chunk_size |-> None, n_cores |-> 1] :
                       d \in {DEFAULT_DT_SECONDS, HALF}}
    /\ fn_call = [pc |-> "loop", swarm_a |-> swarm_a, swarm_b |-> swarm_b,
                  swarm_c |-> swarm_c]
    /\ seq_pc = "idle" /\ results = <<>> /\ seq_out = <<>>
    /\ par_pc = "idle" /\ gps_chunks = <<>> /\ chunk_state = <<>> /\ chunk_out = <<>>
    /\ finish_order = <<>> /\ imap_results = <<>> /\ final_df = <<>> /\ par_out = <<>>
    /\ idw = NoCall
    /\ dates_pc = "idle" /\ dates_df = <<>> /\ unique_dates_df = <<>>

Call_st_idw_process_next ==
    /\ fn_call.pc = "loop" /\ Len(results) < Len(gps_df)
    /\ LET row == gps_df[Len(results) + 1]
           DT  == params.dt_seconds[1]
           out == st_idw_process(row.gpsLat, row.gpsLong, row.gpsAltitude,
                                 row.gpsDateTime, row.epoch,
                                 swarm_a, swarm_b, swarm_c, DT)
       IN  /\ results' = Append(results, [raised |-> out.raised, ret |-> out.ret])
           /\ swarm_a' = series_after_idw(swarm_a, row.epoch, DT)
           /\ swarm_b' = series_after_idw(swarm_b, row.epoch, DT)
           /\ swarm_c' = series_after_idw(swarm_c, row.epoch, DT)
    /\ UNCHANGED <<gps_df, params, fn_call, seq_pc, seq_out, par_vars, idw,
                   dates_pc, dates_df, unique_dates_df>>

NextSeries == Call_st_idw_process_next

SpecSeries == InitSeries /\ [][NextSeries]_vars

----------------------------------------------------------------------------
(* The half-window of the calls the pipeline makes (SpecConfig): one GPS
   point interpolated by the sequential loop and by a worker of the pool,
   for a dt_seconds of the params dictionary, which no caller validates. *)

ConfiguredHalfWindows == {None, Some(HALF), Some(0)}

InitConfig ==
    /\ gps_df \in {<<p>> : p \in QueryPoints}
    /\ swarm_a \in SeriesOver(PipeCat)
    /\ swarm_b \in SeriesOver(PipeCatB)
    /\ swarm_c \in SeriesOver(PipeCatC)
    /\ params \in [dt_seconds : ConfiguredHalfWindows, chunk_size : {None}, n_cores : {1}]
    /\ fn_call = [pc |-> "ready"]
    /\ seq_pc = "idle" /\ results = <<>> /\ seq_out = <<>>
    /\ par_pc = "idle" /\ gps_chunks = <<>> /\ chunk_state = <<>> /\ chunk_out = <<>>
    /\ finish_order = <<>> /\ imap_results = <<>> /\ final_df = <<>> /\ par_out = <<>>
    /\ idw = NoCall
    /\ dates_pc = "idle" /\ dates_df = <<>> /\ unique_dates_df = <<>>

(* the call of core.py:144-148 or of parallel_processing.py:100-103 *)
PipelineCall(mode, dt_seconds) ==
    /\ fn_call.pc = "ready"
    /\ LET row == gps_df[1]
           out == st_idw_process(row.gpsLat, row.gpsLong, row.gpsAltitude,
                                 row.gpsDateTime, row.epoch,
                                 swarm_a, swarm_b, swarm_c, dt_seconds)
       IN  fn_call' = [pc |-> "called", mode |-> mode, raised |-> out.raised,
                       DT |-> dt_seconds, swarm_filtered |-> out.swarm_filtered,
                       ret |-> out.ret]
    /\ UNCHANGED <<idw, dates_pc, dates_df, unique_dates_df, input_vars, seq_vars, par_vars>>

Call_from_sequential_loop == PipelineCall("sequential", seq_dt_seconds(params))

Call_from_chunk_worker == PipelineCall("parallel", par_dt_seconds(params))

NextConfig == Call_from_sequential_loop \/ Call_from_chunk_worker

SpecConfig == InitConfig /\ [][NextConfig]_vars

----------------------------------------------------------------------------
(* swarm_data_manager.py, core.py:70-117: the acquisition of the satellite
   series (SpecSwarm).  fn_call holds the call of download_for_dates or of
   the per-date loop of core.py: the dates asked for, the daily files of the
   data directory, the lists of daily frames collected so far.  swarm_a,
   swarm_b, swarm_c are the series handed to the interpolator. *)

Satellites == {"A", "B", "C"}
SatNo(sat) == IF sat = "A" THEN 1 ELSE IF sat = "B" THEN 2 ELSE 3
NOON == 43200
SwarmDays == {10, 11}

(* swarm.py:11-164: the provider's records of one satellite for one day, in
   time order, indexed by epoch *)
DayFrame(sat, d) ==
    <<Swarm_row(d * SECONDS_PER_DAY, 74, 10 * SatNo(sat) + d, 4, -8, 0, 0, 0, 1),
      Swarm_row(d * SECONDS_PER_DAY + NOON, 69, 20 * SatNo(sat) + d, -5, 9, 0, 0, 0, 2)>>

(* lines 184-186 *)
with_download_metadata(df, date) ==
    Rows([j \in 1..Len(df) |-> df[j] @@ [download_date |-> date, data_quality |-> "good"]])

(* lines 467-481: a daily file holds the frame saved by _save_daily_data;
   read_csv gives the download_date column back as text, parquet as a date *)
load_file(sat, date, file_format) ==
    LET saved == with_download_metadata(DayFrame(sat, date), date)
    IN  IF file_format = "csv"
        THEN Rows([j \in 1..Len(saved) |->
                 [saved[j] EXCEPT !.download_date = [text |-> saved[j].download_date]]])
        ELSE saved

all_files_exist(files, date) == \A sat \in Satellites : <<sat, date>> \in files

(* lines 394-410 *)
filter_existing_dates(dates, files) ==
    SelectSeq(dates, LAMBDA date : ~all_files_exist(files, date))

NoLists == [A |-> <<>>, B |-> <<>>, C |-> <<>>]

lists_append(lists, a, b, c) ==
    [A |-> Append(lists.A, a), B |-> Append(lists.B, b), C |-> Append(lists.C, c)]

lists_extend(lists, more) ==
    [A |-> lists.A \o more.A, B |-> lists.B \o more.B, C |-> lists.C \o more.C]

(* lines 412-441; None is the three empty lists *)
RECURSIVE load_existing_data(_, _, _)
load_existing_data(dates, files, file_format) ==
    IF dates = <<>> THEN NoLists
    ELSE LET rest == load_existing_data(Tail(dates), files, file_format)
             date == Head(dates)
         IN  IF all_files_exist(files, date)
             THEN [A |-> <<load_file("A", date, file_format)>> \o rest.A,
                   B |-> <<load_file("B", date, file_format)>> \o rest.B,
                   C |-> <<load_file("C", date, file_format)>> \o rest.C]
             ELSE rest

AscendingDates == {<<10>>, <<11>>, <<10, 11>>}
DataDirs == SUBSET (Satellites \X SwarmDays)

NewCall(mode, resume, file_format, dates, files) ==
    [pc |-> "ready", mode |-> mode, resume |-> resume, file_format |-> file_format,
     dates |-> dates, files_before |-> files, files |-> files,
     dates_to_process |-> <<>>, next |-> 1, lists |-> NoLists, failed |-> {}]

InitSwarm ==
    /\ fn_call \in {NewCall("manager", resume, file_format, dates, files) :
                       resume \in BOOLEAN, file_format \in {"csv", "parquet"},
                       dates \in AscendingDates, files \in DataDirs}
                   \cup {NewCall("direct", FALSE, "none", dates, {}) : dates \in AscendingDates}
    /\ gps_df = <<>> /\ swarm_a = <<>> /\ swarm_b = <<>> /\ swarm_c = <<>>
    /\ params = [dt_seconds |-> None, chunk_size |-> None, n_cores |-> 1]
    /\ seq_pc = "idle" /\ results = <<>> /\ seq_out = <<>>
    /\ par_pc = "idle" /\ gps_chunks = <<>> /\ chunk_state = <<>> /\ chunk_out = <<>>
    /\ finish_order = <<>> /\ imap_results = <<>> /\ final_df = <<>> /\ par_out = <<>>
    /\ idw = NoCall
    /\ dates_pc = "idle" /\ dates_df = <<>> /\ unique_dates_df = <<>>

swarm_unchanged == <<gps_df, params, seq_vars, par_vars, idw, dates_pc, dates_df,
                     unique_dates_df>>

(* pd.concat(list) if list else pd.DataFrame(), for the three satellites *)
ReturnSeries(lists) ==
    /\ swarm_a' = pd_concat(lists.A)
    /\ swarm_b' = pd_concat(lists.B)
    /\ swarm_c' = pd_concat(lists.C)

(* lines 138-157: the dates to download; when there is none, the series are
   the daily files *)
Manager_filter_dates ==
    /\ fn_call.pc = "ready" /\ fn_call.mode = "manager"
    /\ LET dates_to_process == IF fn_call.resume
                               THEN filter_existing_dates(fn_call.dates, fn_call.files)
                               ELSE fn_call.dates
           existing_data == load_existing_data(fn_call.dates, fn_call.files,
                                               fn_call.file_format)
       IN  IF dates_to_process = <<>> /\ existing_data # NoLists
           THEN /\ fn_call' = [fn_call EXCEPT !.pc = "returned", !.lists = existing_data]
                /\ ReturnSeries(existing_data)
           ELSE /\ fn_call' = [fn_call EXCEPT !.pc = "downloading",
                                              !.dates_to_process = dates_to_process]
                /\ UNCHANGED <<swarm_a, swarm_b, swarm_c>>
    /\ UNCHANGED swarm_unchanged

(* lines 168-204, one date: the download succeeds and the three daily files
   are saved, or it raises and the loop goes on *)
Manager_download_date ==
    /\ fn_call.pc = "downloading" /\ fn_call.next <= Len(fn_call.dates_to_process)
    /\ LET date == fn_call.dates_to_process[fn_call.next]
       IN  \E ok \in BOOLEAN :
              IF ok
              THEN fn_call' = [fn_call EXCEPT
                      !.next = @ + 1,
                      !.files = @ \cup (Satellites \X {date}),
                      !.lists = lists_append(@,
                                   with_download_metadata(DayFrame("A", date), date),
                                   with_download_metadata(DayFrame("B", date), date),
                                   with_download_metadata(DayFrame("C", date), date))]
              ELSE fn_call' = [fn_call EXCEPT !.next = @ + 1, !.failed = @ \cup {date}]
    /\ UNCHANGED <<swarm_a, swarm_b, swarm_c>>
    /\ UNCHANGED swarm_unchanged

(* lines 206-227 *)
Manager_return ==
    /\ fn_call.pc = "downloading" /\ fn_call.next > Len(fn_call.dates_to_process)
    /\ LET lists == IF fn_call.resume
                    THEN lists_extend(fn_call.lists,
                            load_existing_data(fn_call.dates, fn_call.files,
                                               fn_call.file_format))
                    ELSE fn_call.lists
       IN  /\ fn_call' = [fn_call EXCEPT !.pc = "returned", !.lists = lists]
           /\ ReturnSeries(lists)
    /\ UNCHANGED swarm_unchanged

(* core.py:92-107, one date of the loop without a data manager: an
   exception of the request is not caught *)
Direct_fetch_date ==
    /\ fn_call.mode = "direct" /\ fn_call.pc \in {"ready", "fetching"}
    /\ fn_call.next <= Len(fn_call.dates)
    /\ LET date == fn_call.dates[fn_call.next]
       IN  \E ok \in BOOLEAN :
              IF ok
              THEN fn_call' = [fn_call EXCEPT
                      !.pc = "fetching", !.next = @ + 1,
                      !.lists = lists_append(@, DayFrame("A", date),
                                             DayFrame("B", date), DayFrame("C", date))]
              ELSE fn_call' = [fn_call EXCEPT !.pc = "raised", !.failed = @ \cup {date}]
    /\ UNCHANGED <<swarm_a, swarm_b, swarm_c>>
    /\ UNCHANGED swarm_unchanged

(* core.py:109-116 *)
Direct_concat ==
    /\ fn_call.mode = "direct" /\ fn_call.pc = "fetching"
    /\ fn_call.next > Len(fn_call.dates)
    /\ fn_call' = [fn_call EXCEPT !.pc = "returned"]
    /\ ReturnSeries(fn_call.lists)
    /\ UNCHANGED swarm_unchanged

NextSwarm ==
    \/ Manager_filter_dates
    \/ Manager_download_date
    \/ Manager_return
    \/ Direct_fetch_date
    \/ Direct_concat

SpecSwarm == InitSwarm /\ [][NextSwarm]_vars

----------------------------------------------------------------------------
(* chaos_ground_values and the scalar step on a batch of interpolated rows,
   failed rows among them (SpecBatch) *)

MaxBatch == 3

BatchResiduals == {<<NaN, NaN, NaN>>, <<Flt(0), Flt(0), Flt(0)>>, <<Flt(10), Flt(-5), Flt(7)>>}
BatchRows == {ResInt_row(lat, Q0, res) : lat \in {69, 74}, res \in BatchResiduals}

InitBatch ==
    /\ fn_call \in [pc : {"ready"}, batch : SeqsUpTo(BatchRows, MaxBatch)]
    /\ gps_df = <<>> /\ swarm_a = <<>> /\ swarm_b = <<>> /\ swarm_c = <<>>
    /\ params = [dt_seconds |-> None, chunk_size |-> None, n_cores |-> 1]
    /\ seq_pc = "idle" /\ results = <<>> /\ seq_out = <<>>
    /\ par_pc = "idle" /\ gps_chunks = <<>> /\ chunk_state = <<>> /\ chunk_out = <<>>
    /\ finish_order = <<>> /\ imap_results = <<>> /\ final_df = <<>> /\ par_out = <<>>
    /\ idw = NoCall
    /\ dates_pc = "idle" /\ dates_df = <<>> /\ unique_dates_df = <<>>

(* core.py:171-194, parallel_processing.py:126-142 *)
synthesis(batch) == add_scalar_columns(add_chaos_columns(batch))

Call_synthesis ==
    /\ fn_call.pc = "ready"
    /\ fn_call' = [pc |-> "returned", batch |-> fn_call.batch,
                   out |-> synthesis(fn_call.batch)]
    /\ UNCHANGED <<idw, dates_pc, dates_df, unique_dates_df, input_vars, seq_vars, par_vars>>

NextBatch == Call_synthesis

SpecBatch == InitBatch /\ [][NextBatch]_vars

----------------------------------------------------------------------------
(* Properties *)

SwarmCols == {"epoch", "Latitude", "Longitude", "N_res", "E_res", "C_res",
              "F_res", "Flags_F", "Flags_B", "Kp"}
Base(row) == [f \in SwarmCols |-> row[f]]

InWindow(row, q, DT) == q - DT <= row.epoch /\ row.epoch <= q + DT
QualityOK(row) ==
    /\ row.F_res >= -2000 /\ row.F_res <= 2000
    /\ row.Flags_F \in {0, 1}
    /\ row.Flags_B \in {0, 1}
InRadius(row, point) ==
    /\ point.gpsLat > -90 /\ point.gpsLat < 90
    /\ KmPerDegree * Abs(row.Latitude - point.gpsLat) <= 1800 - 10 * Abs(point.gpsLat)

Qualifying(sw, point, DT) ==
    SelectSeq(sw, LAMBDA row : InWindow(row, point.epoch, DT)
                               /\ InRadius(row, point) /\ QualityOK(row))
PooledSet(point, DT) ==
    Qualifying(swarm_a, point, DT) \o Qualifying(swarm_b, point, DT)
        \o Qualifying(swarm_c, point, DT)

Aligned(rec, row) ==
    /\ rec.Latitude = row.gpsLat /\ rec.Longitude = row.gpsLong
    /\ rec.Altitude = row.gpsAltitude /\ rec.DateTime = row.gpsDateTime

Defined(rec) == ~isnan(rec.N_res) /\ ~isnan(rec.E_res) /\ ~isnan(rec.C_res)
Failed(rec) == isnan(rec.N_res) /\ isnan(rec.E_res) /\ isnan(rec.C_res)

RowResult(row, DT) ==
    LET out == st_idw_process(row.gpsLat, row.gpsLong, row.gpsAltitude,
                              row.gpsDateTime, row.epoch, swarm_a, swarm_b, swarm_c, DT)
        rec == IF out.raised = "none" THEN out.ret ELSE bad_point_result(row)
    IN  drop_columns(add_chaos_columns(<<rec>>), {"N_res", "E_res", "C_res"})[1]

EmittedChunkRows ==
    {chunk_out[k][i] : <<k, i>> \in {x \in (DOMAIN chunk_out) \X (1..MaxPts + 1) :
                                        x[2] \in DOMAIN chunk_out[x[1]]}}

(* C1: both loops emit exactly one record per GPS point, in input order,
   and no exception of the interpolation of a point aborts the loop. *)
C1_FaultIsolation ==
    /\ seq_pc # "aborted" /\ par_pc # "aborted"
    /\ Len(results) <= Len(gps_df)
    /\ \A i \in DOMAIN results : Aligned(results[i], gps_df[i])
    /\ seq_pc = "done" => Len(results) = Len(gps_df)
    /\ \A k \in DOMAIN chunk_state :
          chunk_state[k] = "finished" =>
             /\ Len(chunk_out[k]) = Len(gps_chunks[k])
             /\ \A i \in DOMAIN chunk_out[k] : Aligned(chunk_out[k][i], gps_chunks[k][i])

C1_Witness ==
    /\ seq_pc = "done"
    /\ \E i \in 1..(Len(results) - 1) :
          /\ results[i] = bad_point_result(gps_df[i])
          /\ results[i + 1].TotalPoints > 0
    /\ \E k \in DOMAIN chunk_state :
          /\ chunk_state[k] = "finished" /\ Len(chunk_out[k]) = 2
          /\ Failed(chunk_out[k][1]) /\ chunk_out[k][1].TotalPoints = 0
          /\ chunk_out[k][2].TotalPoints > 0

(* C2: a point whose pooled candidate set is empty gets NaN residuals and
   TotalPoints = 0 in the record the pipeline emits. *)
C2_EmptyPoolIsNaN ==
    /\ \A i \in DOMAIN results :
          PooledSet(gps_df[i], seq_dt_seconds(params)) = <<>> =>
             Failed(results[i]) /\ results[i].TotalPoints = 0
    /\ \A k \in DOMAIN chunk_out : \A i \in DOMAIN chunk_out[k] :
          PooledSet(gps_chunks[k][i], par_dt_seconds(params)) = <<>> =>
             Failed(chunk_out[k][i]) /\ chunk_out[k][i].TotalPoints = 0

(* C3: the parallel run returns the same rows, in the same order and with
   the same values, as the sequential run of the same inputs and configuration. *)
C3_ParallelEqualsSequential ==
    (seq_pc = "done" /\ par_pc = "done") => par_out = seq_out

(* C4: the chunks are consecutive slices covering the trajectory, and row i
   of the parallel result is the result of GPS point i. *)
C4_OutputOrder ==
    /\ par_pc \in {"pool", "done"} =>
          /\ pd_concat(gps_chunks) = gps_df
          /\ \A k \in DOMAIN gps_chunks : gps_chunks[k] # <<>>
    /\ par_pc = "done" =>
          /\ Len(final_df) = Len(gps_df)
          /\ \A i \in DOMAIN final_df :
                final_df[i] = RowResult(gps_df[i], par_dt_seconds(params))

C4_Witness ==
    /\ par_pc = "done"
    /\ finish_order = <<2, 1>>
    /\ final_df[1] # final_df[2]

TimeFiltered == <<[sw |-> swarm_a, tk |-> idw.tk_a],
                  [sw |-> swarm_b, tk |-> idw.tk_b],
                  [sw |-> swarm_c, tk |-> idw.tk_c]>>

(* C5 as claimed: DfTime_func returns exactly the records with
   q - DT <= epoch <= q + DT. *)
C5_WindowExact ==
    idw.pc # "ready" =>
       \A x \in DOMAIN TimeFiltered :
          TimeFiltered[x].tk.rows =
             SelectSeq(TimeFiltered[x].sw,
                       LAMBDA row : InWindow(row, gps_df[1].epoch, idw.dt_seconds))

(* C5 amended: when the query epoch itself occurs in the index of the series,
   DfTime_func returns exactly the records with q - DT <= epoch <= q + DT
   (both ends inclusive); otherwise it returns a frame with no rows and no
   columns. *)
C5_WindowExactWhenEpochIndexed ==
    idw.pc # "ready" =>
       \A x \in DOMAIN TimeFiltered :
          LET sw == TimeFiltered[x].sw
              tk == TimeFiltered[x].tk
          IN  IF \E j \in DOMAIN sw : sw[j].epoch = gps_df[1].epoch
              THEN /\ tk.has_columns
                   /\ tk.rows = SelectSeq(sw,
                         LAMBDA row : InWindow(row, gps_df[1].epoch, idw.dt_seconds))
              ELSE tk = EmptyDataFrame

C5_Witness ==
    /\ idw.pc # "ready"
    /\ idw.tk_a.has_columns
    /\ \E j \in DOMAIN swarm_a : ~InWindow(swarm_a[j], gps_df[1].epoch, idw.dt_seconds)
    /\ \E j \in DOMAIN idw.tk_b.rows :
          idw.tk_b.rows[j].epoch = gps_df[1].epoch - idw.dt_seconds

GoodRows == SelectSeq(idw.swarm_filtered, QualityOK)

(* C6: every record that is summed or counted passes the quality filter:
   TotalPoints, the three weighted sums, the distances and Kp are taken over
   records with F_res in [-2000, 2000] and both flags in {0, 1} only. *)
C6_QualityExclusive ==
    idw.pc = "returned" =>
       /\ \A j \in DOMAIN idw.swarm_filtered : QualityOK(idw.swarm_filtered[j])
       /\ idw.ret.TotalPoints = Len(GoodRows)
       /\ idw.ret.N_res = Series_sum(weighted(GoodRows, "N_res"))
       /\ idw.ret.E_res = Series_sum(weighted(GoodRows, "E_res"))
       /\ idw.ret.C_res = Series_sum(weighted(GoodRows, "C_res"))
       /\ idw.ret.Minimum_Distance =
             Series_min(FltColumn(GoodRows, "distance"))
       /\ idw.ret.Average_Distance =
             Series_mean(FltColumn(GoodRows, "distance"))
       /\ idw.ret.Kp = Series_mean(FltColumn(GoodRows, "Kp"))

C6_Witness ==
    /\ idw.pc = "returned"
    /\ idw.ret.TotalPoints >= 2
    /\ \E x \in DOMAIN TimeFiltered : \E j \in DOMAIN TimeFiltered[x].tk.rows :
          LET row == TimeFiltered[x].tk.rows[j]
          IN  InRadius(row, gps_df[1]) /\ ~QualityOK(row)

(* C7: the pooled set is the union over A, B and C of the records in the
   time window, within distance r (inclusive) and of good quality, and
   TotalPoints is its size. *)
C7_PoolMembership ==
    idw.pc = "returned" =>
       /\ [j \in 1..Len(idw.swarm_filtered) |-> Base(idw.swarm_filtered[j])] = PooledSet(gps_df[1], idw.dt_seconds)
       /\ idw.ret.TotalPoints = Len(PooledSet(gps_df[1], idw.dt_seconds))

C7_Witness ==
    /\ idw.pc = "returned"
    /\ idw.ret.TotalPoints >= 2
    /\ \E j \in DOMAIN idw.swarm_filtered :
          idw.swarm_filtered[j].distance = idw.swarm_filtered[j].r
    /\ \E j \in DOMAIN idw.tk_c.rows : ~InRadius(idw.tk_c.rows[j], gps_df[1])

(* C8: the normalized weights of a non-empty pooled set sum to 1. *)
C8_WeightsSumToOne ==
    (idw.pc = "returned" /\ idw.swarm_filtered # <<>>) =>
       Series_sum(Column(idw.swarm_filtered, "Wj")) = Flt(1)

(* C9: in every emitted record, TotalPoints > 0 exactly when the three
   residuals are defined, and TotalPoints = 0 exactly when they are NaN. *)
C9_SuccessIndicator ==
    /\ \A i \in DOMAIN results :
          /\ results[i].TotalPoints > 0 <=> Defined(results[i])
          /\ results[i].TotalPoints = 0 <=> Failed(results[i])
    /\ \A rec \in EmittedChunkRows :
          /\ rec.TotalPoints > 0 <=> Defined(rec)
          /\ rec.TotalPoints = 0 <=> Failed(rec)

SecondsOfDay(t) == t[1] * 3600 + t[2] * 60 + t[3]

RequiredDates ==
    {d \in 0..40 : \E j \in DOMAIN dates_df :
        \/ dates_df[j].dates = d
        \/ dates_df[j].dates = d + 1 /\ SecondsOfDay(dates_df[j].times) < 4 * 3600
        \/ dates_df[j].dates = d - 1 /\ SecondsOfDay(dates_df[j].times) > 20 * 3600}

(* C10: identify_unique_dates returns, ascending and without duplicates,
   exactly the dates d for which some point has date d, or date d + 1 and a
   time before 04:00:00, or date d - 1 and a time after 20:00:00. *)
C10_UniqueDateRule ==
    dates_pc = "returned" =>
       /\ \A i, j \in DOMAIN unique_dates_df :
             i < j => unique_dates_df[i].date < unique_dates_df[j].date
       /\ {unique_dates_df[j].date : j \in DOMAIN unique_dates_df} = RequiredDates
       /\ \A j \in DOMAIN dates_df :
             \E i \in DOMAIN unique_dates_df : unique_dates_df[i].date = dates_df[j].dates

C10_Witness ==
    /\ dates_pc = "returned"
    /\ \E j \in DOMAIN dates_df : dates_df[j].times = <<20, 0, 0>> /\ dates_df[j].dates = 12
    /\ \E j \in DOMAIN dates_df : dates_df[j].times = <<3, 59, 59>> /\ dates_df[j].dates = 12
    /\ Column(unique_dates_df, "date") = <<11, 12>>

InstantDate(point, off) ==
    (point.dates * SECONDS_PER_DAY + SecondsOfDay(point.times) + off) \div SECONDS_PER_DAY

(* C11: for every GPS point with a whole-minute timestamp t, every instant of
   the closed window [t - 14400 s, t + 14400 s] falls on a date returned by
   identify_unique_dates. *)
C11_WindowDatesCovered ==
    dates_pc = "returned" =>
       \A j \in DOMAIN dates_df :
          dates_df[j].times[3] = 0 =>
             \A off \in (-DEFAULT_DT_SECONDS)..DEFAULT_DT_SECONDS :
                \E i \in DOMAIN unique_dates_df :
                   unique_dates_df[i].date = InstantDate(dates_df[j], off)

InDomain(lat) == -90 < lat /\ lat < 90

(* C12: for every latitude in the open interval (-90, 90) Kradius returns
   1800 - 10 * |lat|: 1800 at the equator, the same for lat and -lat, strictly
   decreasing in |lat|, and always strictly greater than 900. *)
C12_RadiusLaw ==
    (fn_call.pc = "returned" /\ InDomain(fn_call.lat)) =>
       /\ ~fn_call.out.raised
       /\ fn_call.out.nlat = 1800 - 10 * Abs(fn_call.lat)
       /\ fn_call.lat = 0 => fn_call.out.nlat = 1800
       /\ fn_call.out.nlat > 900
       /\ InDomain(fn_call.other_lat) =>
             /\ ~fn_call.other_out.raised
             /\ fn_call.other_lat = -fn_call.lat =>
                   fn_call.other_out.nlat = fn_call.out.nlat
             /\ Abs(fn_call.lat) < Abs(fn_call.other_lat) =>
                   fn_call.out.nlat > fn_call.other_out.nlat

C12_Witness ==
    /\ fn_call.pc = "returned"
    /\ fn_call.lat = -45 /\ fn_call.other_lat = 89
    /\ fn_call.out.nlat = 1350 /\ fn_call.other_out.nlat = 910

(* C13: for every latitude with |lat| >= 90, exactly 90 and -90 included,
   Kradius raises ValueError and returns no radius. *)
C13_RadiusDomainError ==
    (fn_call.pc = "returned" /\ Abs(fn_call.lat) >= 90) => fn_call.out.raised

C13_Witness ==
    /\ fn_call.pc = "returned"
    /\ fn_call.lat = 90 /\ fn_call.other_lat = -90
    /\ fn_call.out.raised /\ fn_call.other_out.raised

OutcomeCols == {"N_res", "E_res", "C_res", "TotalPoints",
                "Minimum_Distance", "Average_Distance", "Kp"}
Outcome(rec) == [f \in OutcomeCols |-> rec[f]]

(* C14: the outcome reported for a GPS point with |lat| >= 90 is never the
   same record as the outcome reported for a point with a valid latitude for
   which no candidates were found. *)
C14_LatitudeErrorDistinct ==
    /\ \A i, j \in DOMAIN results :
          (/\ Abs(gps_df[i].gpsLat) >= 90
           /\ Abs(gps_df[j].gpsLat) < 90
           /\ PooledSet(gps_df[j], seq_dt_seconds(params)) = <<>>)
          => Outcome(results[i]) # Outcome(results[j])
    /\ \A bad, empty \in EmittedChunkRows :
          (/\ Abs(bad.Latitude) >= 90
           /\ Abs(empty.Latitude) < 90
           /\ PooledSet(GPS_row(empty.Latitude, empty.DateTime),
                        par_dt_seconds(params)) = <<>>)
          => Outcome(bad) # Outcome(empty)

ConfiguredDT == params_get(params.dt_seconds, DEFAULT_DT_SECONDS)

InterpolatedWith(row, DT) ==
    LET out == st_idw_process(row.gpsLat, row.gpsLong, row.gpsAltitude,
                              row.gpsDateTime, row.epoch, swarm_a, swarm_b, swarm_c, DT)
    IN  IF out.raised = "none" THEN out.ret ELSE bad_point_result(row)

InterpolationCols == {"Latitude", "Longitude", "Altitude", "DateTime"} \cup OutcomeCols

(* C15: in the sequential and in the parallel mode, the record of every point
   is the one interpolated with the configured dt_seconds as half-window
   (14400 when none is configured), for the time window and for Dj. *)
C15_ConfiguredWindowHonoured ==
    /\ \A i \in DOMAIN results :
          results[i] = InterpolatedWith(gps_df[i], ConfiguredDT)
    /\ \A k \in DOMAIN chunk_out : \A i \in DOMAIN chunk_out[k] :
          [f \in InterpolationCols |-> chunk_out[k][i][f]]
             = InterpolatedWith(gps_chunks[k][i], ConfiguredDT)

NothingInWindow(sw, q, DT) == SelectSeq(sw, LAMBDA row : InWindow(row, q, DT)) = <<>>
SeriesWithoutWindow(q, DT) ==
    {x \in DOMAIN TimeFiltered : NothingInWindow(TimeFiltered[x].sw, q, DT)}

(* C16: when one or two of the three series are empty or have no record in
   the window of the query point, st_idw_process returns; the point is failed
   (TotalPoints = 0, NaN residuals) only if the pooled set over the three
   satellites is empty, and the qualifying candidates of the other satellites
   are interpolated. *)
C16_EmptySeriesTolerated ==
    (/\ idw.pc # "ready"
     /\ InDomain(gps_df[1].gpsLat)
     /\ Cardinality(SeriesWithoutWindow(gps_df[1].epoch, idw.dt_seconds)) \in {1, 2})
    => /\ idw.pc = "returned"
       /\ idw.ret.TotalPoints = Len(PooledSet(gps_df[1], idw.dt_seconds))
       /\ PooledSet(gps_df[1], idw.dt_seconds) # <<>> => Defined(idw.ret)
       /\ PooledSet(gps_df[1], idw.dt_seconds) = <<>> => Failed(idw.ret)

SamePlaceAndDate(a, b) ==
    /\ a.Latitude = b.Latitude /\ a.Longitude = b.Longitude
    /\ a.Altitude = b.Altitude /\ a.DateTime = b.DateTime

InternalCols == {"X_obs_internal", "Y_obs_internal", "Z_obs_internal"}
Internal(out) == [f \in InternalCols |-> out[f]]

CoreOf(row) == synth_values_tdep(mjd_day(row), 90 - row.Latitude, row.Longitude)
CrustOf(row) == synth_values_static(90 - row.Latitude, row.Longitude)
GeoOf(row) == gg_to_geo(row.Altitude, 90 - row.Latitude)

(* C17: two inputs of chaos_ground_values that agree on latitude, longitude,
   altitude and date get the same N_Obs, E_Obs, C_Obs, whatever their
   residuals and whatever the magnetospheric contribution; the three values
   are the rotated sum of the core and crust contributions only. *)
C17_InternalFieldIndependent ==
    fn_call.pc = "returned" =>
       /\ SamePlaceAndDate(fn_call.row, fn_call.other_row) =>
             Internal(fn_call.out) = Internal(fn_call.other_out)
       /\ LET row == fn_call.row
              B_r == fadd(CoreOf(row).r, CrustOf(row).r)
              B_t == fadd(CoreOf(row).t, CrustOf(row).t)
              B_phi == fadd(CoreOf(row).phi, CrustOf(row).phi)
          IN  /\ fn_call.out.X_obs_internal =
                    fsub(fmul(fneg(B_t), GeoOf(row).cd), fmul(B_r, GeoOf(row).sd))
              /\ fn_call.out.Y_obs_internal = B_phi
              /\ fn_call.out.Z_obs_internal =
                    fsub(fmul(B_t, GeoOf(row).sd), fmul(B_r, GeoOf(row).cd))

C17_Witness ==
    /\ fn_call.pc = "returned"
    /\ SamePlaceAndDate(fn_call.row, fn_call.other_row)
    /\ isnan(fn_call.row.N_res) /\ ~isnan(fn_call.other_row.N_res)
    /\ fn_call.magneto # fn_call.other_magneto
    /\ isnan(fn_call.out.X_obs) /\ ~isnan(fn_call.other_out.X_obs)
    /\ ~isnan(fn_call.out.X_obs_internal)

SquareOfRoot(h) == [k |-> "num", n |-> h.n, d |-> h.d]

(* C18: for every row with defined N, E, C: H^2 = N^2 + E^2 and
   F^2 = N^2 + E^2 + C^2 with F >= H >= 0, D = atan2(E, N) in degrees lies in
   (-180, 180] and I = atan2(C, H) in degrees lies in [-90, 90]. *)
C18_ScalarIdentities ==
    (/\ fn_call.pc = "returned"
     /\ ~isnan(fn_call.N) /\ ~isnan(fn_call.E) /\ ~isnan(fn_call.C))
    => /\ fn_call.H.k = "root" /\ fn_call.F.k = "root"
       /\ SquareOfRoot(fn_call.H) = fadd(fsquare(fn_call.N), fsquare(fn_call.E))
       /\ SquareOfRoot(fn_call.F) =
             fadd(fadd(fsquare(fn_call.N), fsquare(fn_call.E)), fsquare(fn_call.C))
       /\ fle(Flt(0), SquareOfRoot(fn_call.H))
       /\ fle(SquareOfRoot(fn_call.H), SquareOfRoot(fn_call.F))
       /\ fsign(fn_call.E) > 0 => fn_call.D.lo >= 0
       /\ fsign(fn_call.E) < 0 => fn_call.D.hi <= 0
       /\ fn_call.D.hi <= 180
       /\ fn_call.D.lo > -180 \/ (fn_call.D.lo = -180 /\ fn_call.D.lo < fn_call.D.hi)
       /\ fsign(fn_call.C) > 0 => fn_call.I.lo >= 0
       /\ fsign(fn_call.C) < 0 => fn_call.I.hi <= 0
       /\ fn_call.I.lo >= -90 /\ fn_call.I.hi <= 90

C18_Witness ==
    /\ fn_call.pc = "returned"
    /\ fn_call.N = Flt(-4) /\ fn_call.E = Flt(0) /\ fn_call.C = Flt(-3)
    /\ SquareOfRoot(fn_call.H) = Flt(16) /\ SquareOfRoot(fn_call.F) = Flt(25)
    /\ fn_call.D = Angle(180, 180)
    /\ fn_call.I = Angle(-90, 0)

(* C19: for all points A and B, distance_to_GPS(A, B) equals
   distance_to_GPS(B, A), and distance_to_GPS(A, A) is 0. *)
C19_DistanceSymmetry ==
    fn_call.pc = "returned" =>
       /\ fn_call.AB = fn_call.BA
       /\ fn_call.AA = 0

(* C21: every row returned by get_gps_data has gpsAltitude >= 0 (0 without an
   altitude column and for a negative or null source value), a gpsDateTime
   whose seconds are 0, and an epoch that is the number of whole seconds of
   that truncated timestamp since 1970-01-01, a multiple of 60. *)
C21_GPSNormalized ==
    fn_call.pc = "returned" =>
       /\ ~isnan(fn_call.out.gpsAltitude) /\ fn_call.out.gpsAltitude.n >= 0
       /\ (\/ ~fn_call.altitude_col
           \/ isnan(fn_call.row.height)
           \/ fn_call.row.height.n < 0) => fn_call.out.gpsAltitude = Flt(0)
       /\ fn_call.out.gpsDateTime.second = 0
       /\ fn_call.out.epoch = fn_call.out.gpsDateTime.minute * 60
       /\ fn_call.out.epoch % 60 = 0

CallOnLoaded(row) ==
    st_idw_process(row.gpsLat, row.gpsLong, row.gpsAltitude, row.gpsDateTime, row.epoch,
                   fn_call.swarm_a, fn_call.swarm_b, fn_call.swarm_c, params.dt_seconds[1])

(* C22: after every call of st_idw_process, returned or raised, the three
   series have the rows, columns and values they were loaded with (no dT,
   distance, r, Dj, W or Wj column), and every point of the sequence gets the
   outcome it gets on the series as loaded. *)
C22_SeriesReadOnly ==
    /\ swarm_a = fn_call.swarm_a /\ swarm_b = fn_call.swarm_b /\ swarm_c = fn_call.swarm_c
    /\ \A sw \in {swarm_a, swarm_b, swarm_c} : \A j \in DOMAIN sw : DOMAIN sw[j] = SwarmCols
    /\ \A i \in DOMAIN results :
          /\ results[i].raised = CallOnLoaded(gps_df[i]).raised
          /\ results[i].ret = CallOnLoaded(gps_df[i]).ret

C22_Witness ==
    /\ Len(results) = 2
    /\ results[1].raised = "ValueError"
    /\ results[2].raised = "none" /\ results[2].ret.TotalPoints >= 2
    /\ Len(swarm_a) = 2 /\ swarm_b # <<>> /\ swarm_c # <<>>

Coincident(row) == row.distance = 0 /\ row.dT = 0

(* C23: when a pooled candidate has distance 0 and dT 0, st_idw_process
   returns, the candidate's normalized weight is a number and no candidate
   weighs more, and N_res, E_res, C_res are finite numbers. *)
C23_CoincidenceHandled ==
    (/\ idw.pc # "ready"
     /\ InDomain(gps_df[1].gpsLat)
     /\ \E j \in DOMAIN PooledSet(gps_df[1], idw.dt_seconds) :
           /\ PooledSet(gps_df[1], idw.dt_seconds)[j].epoch = gps_df[1].epoch
           /\ PooledSet(gps_df[1], idw.dt_seconds)[j].Latitude = gps_df[1].gpsLat
     /\ \A x \in DOMAIN TimeFiltered :
           \E j \in DOMAIN TimeFiltered[x].sw : TimeFiltered[x].sw[j].epoch = gps_df[1].epoch)
    => /\ idw.pc = "returned"
       /\ \A j \in DOMAIN idw.swarm_filtered :
             Coincident(idw.swarm_filtered[j]) =>
                /\ isfinite(idw.swarm_filtered[j].Wj)
                /\ \A i \in DOMAIN idw.swarm_filtered :
                      fle(idw.swarm_filtered[i].Wj, idw.swarm_filtered[j].Wj)
       /\ isfinite(idw.ret.N_res) /\ isfinite(idw.ret.E_res) /\ isfinite(idw.ret.C_res)

(* C24: whenever the pipeline's call of st_idw_process reaches DistJ
   (line 177), the half-window DT it passes is strictly positive, and so is
   the radius r of every candidate. *)
C24_PositiveDivisors ==
    (fn_call.pc = "called" /\ fn_call.raised = "none") =>
       /\ fn_call.DT > 0
       /\ \A j \in DOMAIN fn_call.swarm_filtered : fn_call.swarm_filtered[j].r > 0

ModelSum(row, magneto) == vec_add(vec_add(CoreOf(row), CrustOf(row)), magneto)

(* C25: with X = -(sum of B_theta), Z = -(sum of B_r) and Y = sum of B_phi
   over core, crust and magnetosphere, chaos_ground_values returns
   N = (X + N_res)*cd + (Z + C_res)*sd, C = (Z + C_res)*cd - (X + N_res)*sd
   and E = Y + E_res. *)
C25_GroundSynthesisAlgebra ==
    fn_call.pc = "returned" =>
       LET row == fn_call.row
           X == fneg(ModelSum(row, fn_call.magneto).t)
           Z == fneg(ModelSum(row, fn_call.magneto).r)
           Y == ModelSum(row, fn_call.magneto).phi
           sd == GeoOf(row).sd
           cd == GeoOf(row).cd
       IN  /\ fn_call.out.X_obs =
                 fadd(fmul(fadd(X, row.N_res), cd), fmul(fadd(Z, row.C_res), sd))
           /\ fn_call.out.Z_obs =
                 fsub(fmul(fadd(Z, row.C_res), cd), fmul(fadd(X, row.N_res), sd))
           /\ fn_call.out.Y_obs = fadd(Y, row.E_res)

C25_Witness ==
    /\ fn_call.pc = "returned"
    /\ fn_call.row.N_res = Num(38, 3) /\ fn_call.row.C_res = Flt(7)
    /\ fn_call.magneto.r = Flt(6)
    /\ isfinite(fn_call.out.X_obs) /\ isfinite(fn_call.out.Z_obs)
    /\ fn_call.out.X_obs # fn_call.out.X_obs_internal
    /\ fn_call.out.Y_obs = fadd(fadd(Flt(38 + 1), Flt(5)), Flt(-5))

HandedSeries == {swarm_a, swarm_b, swarm_c}

(* C26: in both acquisition paths, each satellite series handed to the
   interpolator has a non-decreasing epoch index. *)
C26_SeriesSortedByEpoch ==
    fn_call.pc = "returned" =>
       \A sw \in HandedSeries : \A i, j \in DOMAIN sw :
          i < j => sw[i].epoch <= sw[j].epoch

Obtained(date) ==
    \/ all_files_exist(fn_call.files_before, date)
    \/ date \in {fn_call.dates_to_process[k] : k \in DOMAIN fn_call.dates_to_process}
                   \ fn_call.failed

RecordsAt(sw, epoch) == Cardinality({j \in DOMAIN sw : sw[j].epoch = epoch})

(* C27: download_for_dates with resume=True downloads exactly the dates for
   which not all three files exist, goes on after a failed download, and
   returns series that hold every record of every obtained date (cached or
   downloaded) exactly once. *)
C27_EachDateOnce ==
    (fn_call.mode = "manager" /\ fn_call.resume /\ fn_call.pc = "returned") =>
       /\ fn_call.dates_to_process =
             SelectSeq(fn_call.dates,
                       LAMBDA date : ~all_files_exist(fn_call.files_before, date))
       /\ fn_call.next = Len(fn_call.dates_to_process) + 1
       /\ \A k \in DOMAIN fn_call.dates : \A sat \in Satellites :
             LET date == fn_call.dates[k]
                 sw == IF sat = "A" THEN swarm_a ELSE IF sat = "B" THEN swarm_b ELSE swarm_c
             IN  \A j \in DOMAIN DayFrame(sat, date) :
                    RecordsAt(sw, DayFrame(sat, date)[j].epoch)
                       = IF Obtained(date) THEN 1 ELSE 0

(* C28: every pooled candidate has |dT| <= DT and distance <= r, hence
   0 <= Dj <= 1 and W = 1/Dj^2 >= 1; for a non-empty pool
   Minimum_Distance <= Average_Distance <= r. *)
C28_BoundedJointDistance ==
    idw.pc = "returned" =>
       /\ \A j \in DOMAIN idw.swarm_filtered :
             LET row == idw.swarm_filtered[j]
             IN  /\ Abs(row.dT) <= idw.dt_seconds
                 /\ row.distance <= row.r
                 /\ fle(Flt(0), row.Dj) /\ fle(row.Dj, Flt(1))
                 /\ ~isnan(row.W) /\ fle(Flt(1), row.W)
       /\ idw.swarm_filtered # <<>> =>
             /\ fle(idw.ret.Minimum_Distance, idw.ret.Average_Distance)
             /\ fle(idw.ret.Average_Distance, Flt(idw.swarm_filtered[1].r))

C28_Witness ==
    /\ idw.pc = "returned"
    /\ \E j \in DOMAIN idw.swarm_filtered :
          /\ idw.swarm_filtered[j].dT = idw.dt_seconds
          /\ idw.swarm_filtered[j].distance > 0
          /\ idw.swarm_filtered[j].W = Num(8, 5)
    /\ \E j \in DOMAIN idw.swarm_filtered :
          idw.swarm_filtered[j].distance = idw.swarm_filtered[j].r
    /\ idw.ret.Minimum_Distance # idw.ret.Average_Distance

ResidualCols == {"N_res", "E_res", "C_res"}
PoolValues(c) == {idw.swarm_filtered[j][c] : j \in DOMAIN idw.swarm_filtered}
AllDjPositive == \A j \in DOMAIN idw.swarm_filtered : idw.swarm_filtered[j].Dj.n > 0

Residuals_of(ret) == [c \in ResidualCols |-> ret[c]]
CallWithSeries(sw_1, sw_2, sw_3) ==
    st_idw_process(gps_df[1].gpsLat, gps_df[1].gpsLong, gps_df[1].gpsAltitude,
                   gps_df[1].gpsDateTime, gps_df[1].epoch, sw_1, sw_2, sw_3, idw.dt_seconds)

(* C29: for a non-empty pool in which every Dj > 0, each of N_res, E_res,
   C_res lies between the minimum and the maximum of that component over the
   pooled candidates, equals the candidate's residual when the pool has one
   candidate, and is the same when the three series change places. *)
C29_ConvexCombination ==
    (idw.pc = "returned" /\ idw.swarm_filtered # <<>> /\ AllDjPositive) =>
       /\ \A c \in ResidualCols :
             /\ isfinite(idw.ret[c])
             /\ \E v \in PoolValues(c) : fle(Flt(v), idw.ret[c])
             /\ \E v \in PoolValues(c) : fle(idw.ret[c], Flt(v))
             /\ Len(idw.swarm_filtered) = 1 => idw.ret[c] = Flt(idw.swarm_filtered[1][c])
       /\ Residuals_of(CallWithSeries(swarm_b, swarm_c, swarm_a).ret) = Residuals_of(idw.ret)
       /\ Residuals_of(CallWithSeries(swarm_b, swarm_a, swarm_c).ret) = Residuals_of(idw.ret)

C29_Witness ==
    /\ idw.pc = "returned" /\ AllDjPositive
    /\ Len(idw.swarm_filtered) = 3
    /\ {idw.swarm_filtered[j].key : j \in DOMAIN idw.swarm_filtered} = {"A", "B", "C"}
    /\ \A v \in PoolValues("N_res") : idw.ret.N_res # Flt(v)
    /\ \E j \in DOMAIN idw.swarm_filtered :
          idw.swarm_filtered[j].W # idw.swarm_filtered[1].W

Without(df, j) == SubSeq(df, 1, j - 1) \o SubSeq(df, j + 1, Len(df))

(* C30: in a batch passed to chaos_ground_values and the scalar step, a row
   with NaN residuals gets NaN for N, E, C, H, D, I, F and finite N_Obs,
   E_Obs, C_Obs, and every other row gets what it gets in the batch without
   that row. *)
C30_NaNConfined ==
    fn_call.pc = "returned" =>
       \A j \in DOMAIN fn_call.batch :
          Failed(fn_call.batch[j]) =>
             /\ \A c \in {"N", "E", "C", "H", "D", "I", "F"} : isnan(fn_call.out[j][c])
             /\ \A c \in {"N_Obs", "E_Obs", "C_Obs"} : isfinite(fn_call.out[j][c])
             /\ Without(fn_call.out, j) = synthesis(Without(fn_call.batch, j))

C30_Witness ==
    /\ fn_call.pc = "returned" /\ Len(fn_call.batch) = 3
    /\ Failed(fn_call.batch[2])
    /\ ~Failed(fn_call.batch[1]) /\ ~Failed(fn_call.batch[3])
    /\ fn_call.batch[1] # fn_call.batch[3]
    /\ isnan(fn_call.out[2].F) /\ isfinite(fn_call.out[2].N_Obs)
    /\ fn_call.out[1].F.k = "root" /\ fn_call.out[3].D.k = "angle"

====
